---- MODULE Spec2Model ----
(***************************************************************************)
(* A model of the ArangoDB adapter for Casbin (package arangoadapter).     *)
(*                                                                         *)
(* The persisted collection is a bag of CasbinRule documents (the _key is  *)
(* assigned by the store and never read by the adapter).  An in-memory     *)
(* Casbin model is the set of its policy tuples <<ptype, v0, ..>>.         *)
(*                                                                         *)
(*   SpecCodec  the rule codec, savePolicyLine / loadPolicyLine            *)
(*   Spec       the write operations on the collection                     *)
(*   SpecLoad   SavePolicy and the loads into a model                      *)
(*   SpecTx     Adapter.Transaction and BeginTransaction with an enforcer  *)
(*   SpecAtx    BeginTransaction, GetAdapter, Commit and Rollback alone    *)
(*   SpecRun    Adapter.Transaction alone, with the enforcer's writes      *)
(*   SpecMu     Adapter.Transaction called from several goroutines         *)
(*   SpecConc   the write operations called from several goroutines        *)
(*   SpecErr    the database calls of each operation and their errors      *)
(*   SpecAdd    AddPolicy, AddPolicies and a load, on a collection with    *)
(*              any content                                                *)
(*   SpecUpd    UpdateFilteredPolicies on a collection with any content    *)
(*   SpecQuery  the texts and bound parameters of the queries              *)
(*   SpecSave   SavePolicy, database call by database call                 *)
(*   SpecNest   Adapter.Transaction with an fc that calls Transaction      *)
(*   SpecUpds   UpdatePolicies on a collection with any content            *)
(*   SpecPreview  Preview on a list of rules and a model                   *)
(***************************************************************************)
EXTENDS Integers, Sequences, FiniteSets, Bags, TLC

VARIABLES
  coll,        \* the documents of the collection, as seen outside any transaction
  model,       \* the Casbin model handed to the most recent call (after the call)
  isFiltered,  \* Adapter.isFiltered of the adapter the operations are called on
  last,        \* the most recent call: operation, arguments, outcome
  codec,       \* SpecCodec: the codec's input and its results
  adapters,    \* SpecTx: the Adapter objects, by address
  eAdapter,    \* SpecTx: the address of the adapter the enforcer holds
  txs,         \* SpecTx: the streaming transactions of the database, by id
  frame,       \* SpecTx: the call of Adapter.Transaction in progress or returned
  atx,         \* SpecTx: the ArangoTransactionContext of BeginTransaction
  mu,          \* the sync.Mutex objects, by address: the goroutine holding each, or 0
  procs        \* SpecMu, SpecConc: the call each goroutine is in

txVars == <<adapters, eAdapter, txs, frame, atx, mu, procs>>

vars == <<coll, model, isFiltered, last, codec, txVars>>

----------------------------------------------------------------------------
(* Bounds and input universes                                              *)

\* CasbinRule has the six value fields V0..V5
NumFields == 6

\* SpecCodec draws rules of 0..MaxRuleLen values
MaxRuleLen == 6

\* the collection holds at most MaxDocs documents
MaxDocs == 2

Values == {"", "a", "b"}

\* policy types of the sections "p" and "g"
PTypes == {"p", "g"}

\* every rule of at most MaxRuleLen values
AllRules == UNION {[1..n -> Values] : n \in 0..MaxRuleLen}

\* the rules the operations are called with: no value, one value, two values,
\* a trailing empty value, a leading empty value, six values with empty ones
\* in the middle, two empty values
Rules ==
  { <<>>, <<"a">>, <<"a", "b">>, <<"a", "">>, <<"", "b">>,
    <<"b", "", "", "", "", "a">>, <<"", "">> }

\* the (fieldIndex, fieldValues) pairs RemoveFilteredPolicy is called with
FieldIndexes == {-2, -1, 0, 1, 5, 6}
FieldValueLists ==
  { <<>>, <<"a">>, <<"b">>, <<"a", "b">>, <<"", "b">>,
    <<"b", "", "", "", "", "a", "a">> }

----------------------------------------------------------------------------
(* The rule codec                                                          *)

\* a variant that shifts the values by one field
savePolicyLineShifted(ptype, rule) ==
  [ Ptype |-> ptype,
    V0 |-> "",
    V1 |-> IF Len(rule) > 0 THEN rule[1] ELSE "",
    V2 |-> IF Len(rule) > 1 THEN rule[2] ELSE "",
    V3 |-> IF Len(rule) > 2 THEN rule[3] ELSE "",
    V4 |-> IF Len(rule) > 3 THEN rule[4] ELSE "",
    V5 |-> IF Len(rule) > 4 THEN rule[5] ELSE "" ]

savePolicyLine(ptype, rule) ==
  [ Ptype |-> ptype,
    V0 |-> IF Len(rule) > 0 THEN rule[1] ELSE "",
    V1 |-> IF Len(rule) > 1 THEN rule[2] ELSE "",
    V2 |-> IF Len(rule) > 2 THEN rule[3] ELSE "",
    V3 |-> IF Len(rule) > 3 THEN rule[4] ELSE "",
    V4 |-> IF Len(rule) > 4 THEN rule[5] ELSE "",
    V5 |-> IF Len(rule) > 5 THEN rule[6] ELSE "" ]

\* the value field i of a document
Field(line, i) ==
  CASE i = 0 -> line.V0
    [] i = 1 -> line.V1
    [] i = 2 -> line.V2
    [] i = 3 -> line.V3
    [] i = 4 -> line.V4
    [] i = 5 -> line.V5

\* the loop `for p[index] == "" { index-- }`; p is 1-based here, so reaching 0
\* is the Go index -1, an index-out-of-range panic
RECURSIVE TrimIndex(_, _)
TrimIndex(p, index) ==
  IF index < 1 THEN 0
  ELSE IF p[index] = "" THEN TrimIndex(p, index - 1)
  ELSE index

\* a variant that replaces the model's policy by the tuple
LoadPolicyArrayReplace(p, m) == {p}

\* persist.LoadPolicyArray(p, model): the tuple joins the model's policy, a
\* tuple already there is skipped
LoadPolicyArray(p, m) == m \cup {p}

\* a variant that drops every empty value, not only the trailing ones
loadPolicyLineDropEmpty(line, m) ==
  IF line.Ptype = "" THEN [model |-> m, fault |-> FALSE]
  ELSE LET p == <<line.Ptype, line.V0, line.V1, line.V2, line.V3, line.V4, line.V5>>
       IN [model |-> LoadPolicyArray(SelectSeq(p, LAMBDA s : s # ""), m),
           fault |-> FALSE]

\* a variant without the early return for an empty ptype
loadPolicyLineNoSkip(line, m) ==
  LET p == <<line.Ptype, line.V0, line.V1, line.V2, line.V3, line.V4, line.V5>>
      index == TrimIndex(p, Len(p))
  IN IF index = 0 THEN [model |-> m, fault |-> TRUE]
     ELSE [model |-> LoadPolicyArray(SubSeq(p, 1, index), m), fault |-> FALSE]

\* the model after the call, and whether the call panicked
loadPolicyLine(line, m) ==
  IF line.Ptype = "" THEN [model |-> m, fault |-> FALSE]
  ELSE LET p == <<line.Ptype, line.V0, line.V1, line.V2, line.V3, line.V4, line.V5>>
           index == TrimIndex(p, Len(p))
       IN IF index = 0 THEN [model |-> m, fault |-> TRUE]
          ELSE [model |-> LoadPolicyArray(SubSeq(p, 1, index), m), fault |-> FALSE]

----------------------------------------------------------------------------
(* SpecCodec: encode a rule, then decode the document into an empty model  *)

\* no call yet; the record of a call keeps its arguments and, in hit, the number
\* of documents its query selected; err is the error it returned, calls the
\* number of database calls it issued and log those calls with their outcomes
NoCall ==
  [ptype |-> "", rule |-> <<>>, op |-> "none", ok |-> TRUE, newRule |-> <<>>,
   fieldIndex |-> 0, fieldValues |-> <<>>, hit |-> 0,
   dest |-> {}, filter |-> [type |-> "nil", filters |-> <<>>],
   err |-> "", calls |-> 0, log |-> <<>>, rules |-> <<>>,
   oldPolicies |-> [nil |-> TRUE, list |-> <<>>], queries |-> <<>>,
   oldRules |-> <<>>]

\* no transaction is in use: one adapter, held by the enforcer
NoFrame ==
  [log |-> <<>>, pc |-> "idle", a |-> 0, held |-> 0, originalAdapter |-> 0,
   txAdapter |-> 0, tx |-> 0, preColl |-> EmptyBag, wrote |-> FALSE,
   result |-> "none", fc |-> "none"]

NoAtx ==
  [txAdapter |-> 0, tx |-> 0, preColl |-> EmptyBag, wrote |-> FALSE,
   adapter |-> 0, committed |-> FALSE, rolledBack |-> FALSE]

\* the goroutines that call the adapter concurrently
NumProcs == 2
Procs == 1..NumProcs

\* a goroutine that is in no call; rules, sent and log belong to a call of
\* SavePolicy (the rules collected from the model, how many of them were
\* inserted, the database calls issued so far) and w is the one database write
\* of another operation
NoProc ==
  [err |-> FALSE, calls |-> 0, log |-> <<>>, rules |-> <<>>, pc |-> "idle",
   a |-> 0, originalAdapter |-> 0, txAdapter |-> 0, tx |-> 0, sent |-> 0,
   w |-> [kind |-> "none"]]

\* NewAdapter: one adapter with its own mutex, held by the enforcer; copyOf is
\* the adapter a copy was made from by Copy, 0 for an adapter built otherwise
TxInit ==
  /\ adapters = <<[isFiltered |-> FALSE, transaction |-> 0, transactionMu |-> 1,
                   copyOf |-> 0]>>
  /\ eAdapter = 1
  /\ txs = <<>>
  /\ frame = NoFrame
  /\ atx = NoAtx
  /\ mu = <<0>>
  /\ procs = [g \in Procs |-> NoProc]

NoLine == savePolicyLine("", <<>>)
NoCodec == [ptype |-> "", rule |-> <<>>, line |-> NoLine, pc |-> "off",
            out |-> [model |-> {}, fault |-> FALSE]]

InitCodec ==
  /\ coll = EmptyBag
  /\ model = {}
  /\ isFiltered = FALSE
  /\ last = NoCall
  /\ \E ptype \in PTypes \cup {"", "p2"}, rule \in AllRules :
       codec = [NoCodec EXCEPT !.pc = "input", !.ptype = ptype, !.rule = rule]
  /\ TxInit

Encode ==
  /\ codec.pc = "input"
  /\ codec' = [codec EXCEPT !.pc = "encoded",
                            !.line = savePolicyLine(codec.ptype, codec.rule)]
  /\ UNCHANGED <<coll, model, isFiltered, last, txVars>>

Decode ==
  /\ codec.pc = "encoded"
  /\ codec' = [codec EXCEPT !.pc = "decoded",
                            !.out = loadPolicyLine(codec.line, {})]
  /\ UNCHANGED <<coll, model, isFiltered, last, txVars>>

NextCodec == Encode \/ Decode

SpecCodec == InitCodec /\ [][NextCodec]_vars

----------------------------------------------------------------------------
\* C4: for a non-empty ptype and a rule of at most 6 values, decoding the
\* encoded rule yields, without a fault, the tuple made of the ptype and the
\* rule's values up to its last non-empty value: values in the middle that are
\* empty are kept, and a rule without a non-empty value yields the ptype alone
Prefix(rule, n) == [i \in 1..n |-> rule[i]]

LastNonEmpty(rule) ==
  IF \E i \in 1..Len(rule) : rule[i] # ""
  THEN CHOOSE i \in 1..Len(rule) :
         /\ rule[i] # ""
         /\ \A j \in (i+1)..Len(rule) : rule[j] = ""
  ELSE 0

C4_RoundTrip ==
  (codec.pc = "decoded" /\ codec.ptype # "" /\ Len(codec.rule) <= NumFields)
    => /\ codec.out.fault = FALSE
       /\ codec.out.model =
            {<<codec.ptype>> \o Prefix(codec.rule, LastNonEmpty(codec.rule))}

\* a rule with an empty value in the middle and trailing empty values was
\* decoded
C4_Witness ==
  /\ codec.pc = "decoded"
  /\ codec.ptype = "p"
  /\ codec.rule = <<"a", "", "b", "", "">>
  /\ codec.out.model = {<<"p", "a", "", "b">>}

----------------------------------------------------------------------------
(* The query builder and the store                                         *)
(* A query is the set of value fields its text constrains, next to the     *)
(* bound parameters: ptype and one value for each constrained field.       *)

\* a variant that constrains the first value field only
exactMatchQueryFirstField(line) ==
  LET fields == {i \in {0} : Field(line, i) # ""}
  IN [ptype |-> line.Ptype, fields |-> fields,
      v |-> [i \in fields |-> Field(line, i)]]

\* RemovePolicyCtx, UpdatePolicy: one equality clause for each non-empty field
exactMatchQuery(line) ==
  LET fields == {i \in 0..5 : Field(line, i) # ""}
  IN [ptype |-> line.Ptype, fields |-> fields,
      v |-> [i \in fields |-> Field(line, i)]]

\* a variant that, like the exact-match filter, leaves out the empty values
fieldIndexQuerySkipEmpty(ptype, fieldIndex, fieldValues) ==
  LET fields == {i \in 0..5 : /\ fieldIndex <= i
                              /\ i < fieldIndex + Len(fieldValues)
                              /\ fieldValues[i - fieldIndex + 1] # ""}
  IN [ptype |-> ptype, fields |-> fields,
      v |-> [i \in fields |-> fieldValues[i - fieldIndex + 1]]]

\* a variant that takes a negative fieldIndex for 0
fieldIndexQueryFromZero(ptype, fieldIndex, fieldValues) ==
  LET from == IF fieldIndex < 0 THEN 0 ELSE fieldIndex
      fields == {i \in 0..5 : from <= i /\ i < from + Len(fieldValues)}
  IN [ptype |-> ptype, fields |-> fields,
      v |-> [i \in fields |-> fieldValues[i - from + 1]]]

\* RemoveFilteredPolicyCtx: field i is constrained when
\* fieldIndex <= i && i < fieldIndex+len(fieldValues), to fieldValues[i-fieldIndex]
fieldIndexQuery(ptype, fieldIndex, fieldValues) ==
  LET fields == {i \in 0..5 : fieldIndex <= i /\ i < fieldIndex + Len(fieldValues)}
  IN [ptype |-> ptype, fields |-> fields,
      v |-> [i \in fields |-> fieldValues[i - fieldIndex + 1]]]

\* a variant without the condition on ptype
SelectsAnyPtype(q, doc) == \A i \in q.fields : Field(doc, i) = q.v[i]

\* FILTER doc.ptype == @ptype && doc.v0 == @v0 && ..
Selects(q, doc) ==
  /\ doc.Ptype = q.ptype
  /\ \A i \in q.fields : Field(doc, i) = q.v[i]

\* fieldValues[i-fieldIndex] is evaluated with an index outside the slice: a
\* runtime panic
indexOutOfRange(fieldIndex, fieldValues) ==
  \E i \in 0..5 :
    /\ fieldIndex <= i /\ i < fieldIndex + Len(fieldValues)
    /\ i - fieldIndex \notin 0..(Len(fieldValues) - 1)

Restrict(c, S) == [d \in S |-> c[d]]

\* a.collectionName, bound to @@collection
collectionName == "casbin_rule"

\* the name of field i in a query and in the bound parameters
vName(i) ==
  CASE i = 0 -> "v0" [] i = 1 -> "v1" [] i = 2 -> "v2"
    [] i = 3 -> "v3" [] i = 4 -> "v4" [] i = 5 -> "v5"

newName(i) ==
  CASE i = 0 -> "new_v0" [] i = 1 -> "new_v1" [] i = 2 -> "new_v2"
    [] i = 3 -> "new_v3" [] i = 4 -> "new_v4" [] i = 5 -> "new_v5"

\* query += " && doc.vi == @vi"
eqClause(i) ==
  CASE i = 0 -> " && doc.v0 == @v0" [] i = 1 -> " && doc.v1 == @v1"
    [] i = 2 -> " && doc.v2 == @v2" [] i = 3 -> " && doc.v3 == @v3"
    [] i = 4 -> " && doc.v4 == @v4" [] i = 5 -> " && doc.v5 == @v5"

\* the pieces appended to a query text, in order: a text is the sequence of
\* the pieces it is concatenated from
Appended(pieces) == LET Test(x) == x # "" IN SelectSeq(pieces, Test)

\* a variant that writes each value into the text
exactFilterInline(q) ==
  <<"FOR doc IN @@collection FILTER doc.ptype == @ptype">>
    \o Appended([i \in 1..6 |-> IF (i - 1) \in q.fields THEN q.v[i - 1] ELSE ""])

\* the text up to the FILTER conditions of RemovePolicyCtx,
\* RemoveFilteredPolicyCtx and UpdatePolicy
exactFilter(q) ==
  <<"FOR doc IN @@collection FILTER doc.ptype == @ptype">>
    \o Appended([i \in 1..6 |-> IF (i - 1) \in q.fields THEN eqClause(i - 1) ELSE ""])

\* bindVars, as the set of its (name, value) entries
exactBindVars(q) ==
  {<<"@collection", collectionName>>, <<"ptype", q.ptype>>}
    \cup {<<vName(i), q.v[i]>> : i \in q.fields}

\* the query RemovePolicyCtx and RemoveFilteredPolicyCtx hand to a.db.Query
removeQuery(q) ==
  [q |-> q, text |-> exactFilter(q) \o <<" REMOVE doc IN @@collection">>,
   bindVars |-> exactBindVars(q)]

\* the query UpdatePolicy hands to a.db.Query
updateQuery(q, newLine) ==
  [q |-> q,
   text |-> exactFilter(q) \o
     <<" UPDATE doc WITH { ptype: @new_ptype, v0: @new_v0, v1: @new_v1, v2: @new_v2, v3: @new_v3, v4: @new_v4, v5: @new_v5 } IN @@collection">>,
   bindVars |-> exactBindVars(q) \cup {<<"new_ptype", newLine.Ptype>>}
                  \cup {<<newName(i), Field(newLine, i)>> : i \in 0..5}]

\* the number of documents the query selects
Hits(c, q) == BagCardinality(Restrict(c, {d \in DOMAIN c : Selects(q, d)}))

\* FOR doc IN @@collection FILTER .. REMOVE doc IN @@collection
QueryRemove(c, q) == Restrict(c, {d \in DOMAIN c : ~Selects(q, d)})

\* FOR doc IN @@collection FILTER .. UPDATE doc WITH { ptype: .., v0: .., .. v5: .. }
QueryUpdate(c, q, newLine) ==
  IF Hits(c, q) = 0 THEN c
  ELSE QueryRemove(c, q) (+) [d \in {newLine} |-> Hits(c, q)]

\* collection.CreateDocument(ctx, line)
CreateDocument(c, line) == c (+) SetToBag({line})

----------------------------------------------------------------------------
(* Spec: the write operations, each a call that the store may fail         *)

Init ==
  /\ coll = EmptyBag
  /\ model = {}
  /\ isFiltered = FALSE
  /\ last = NoCall
  /\ codec = NoCodec
  /\ TxInit

\* the store returned an error to the one database call of `op`
Failed(op) ==
  /\ last' = [NoCall EXCEPT !.op = op, !.ok = FALSE]
  /\ UNCHANGED <<coll, model, isFiltered, codec, txVars>>

AddPolicyCtx ==
  \/ \E ptype \in PTypes, rule \in Rules :
       /\ BagCardinality(coll) < MaxDocs
       /\ coll' = CreateDocument(coll, savePolicyLine(ptype, rule))
       /\ last' = [NoCall EXCEPT !.op = "AddPolicy", !.ptype = ptype, !.rule = rule]
       /\ UNCHANGED <<model, isFiltered, codec, txVars>>
  \/ Failed("AddPolicy")

RemovePolicyCtx ==
  \/ \E ptype \in PTypes, rule \in Rules :
       LET line == savePolicyLine(ptype, rule)
           query == exactMatchQuery(line)
       IN /\ coll' = QueryRemove(coll, query)
          /\ last' = [NoCall EXCEPT !.op = "RemovePolicy", !.ptype = ptype,
                                    !.rule = rule, !.hit = Hits(coll, query),
                                    !.queries = <<removeQuery(query)>>]
          /\ UNCHANGED <<model, isFiltered, codec, txVars>>
  \/ Failed("RemovePolicy")

RemoveFilteredPolicyCtx ==
  \/ \E ptype \in PTypes, fieldIndex \in FieldIndexes, fieldValues \in FieldValueLists :
       LET query == fieldIndexQuery(ptype, fieldIndex, fieldValues)
           call == [NoCall EXCEPT !.op = "RemoveFilteredPolicy", !.ptype = ptype,
                                  !.fieldIndex = fieldIndex,
                                  !.fieldValues = fieldValues]
       IN IF indexOutOfRange(fieldIndex, fieldValues)
          THEN /\ coll' = coll
               /\ last' = [call EXCEPT !.ok = FALSE, !.err = "index out of range"]
          ELSE /\ coll' = QueryRemove(coll, query)
               /\ last' = [call EXCEPT !.hit = Hits(coll, query),
                                       !.queries = <<removeQuery(query)>>]
          /\ UNCHANGED <<model, isFiltered, codec, txVars>>
  \/ Failed("RemoveFilteredPolicy")

UpdatePolicy ==
  \/ \E ptype \in PTypes, oldRule \in Rules, newPolicy \in Rules :
       LET oldLine == savePolicyLine(ptype, oldRule)
           newLine == savePolicyLine(ptype, newPolicy)
           query == exactMatchQuery(oldLine)
       IN /\ coll' = QueryUpdate(coll, query, newLine)
          /\ last' = [NoCall EXCEPT !.op = "UpdatePolicy", !.ptype = ptype,
                                    !.rule = oldRule, !.newRule = newPolicy,
                                    !.hit = Hits(coll, query),
                                    !.queries = <<updateQuery(query, newLine)>>]
          /\ UNCHANGED <<model, isFiltered, codec, txVars>>
  \/ Failed("UpdatePolicy")

\* the caller has taken the outcome of its call
Return ==
  /\ last.op # "none"
  /\ last' = NoCall
  /\ UNCHANGED <<coll, model, isFiltered, codec, txVars>>

\* the calls are made one after the other: a call starts when the outcome of
\* the one before has been taken
Next ==
  \/ last.op = "none" /\ AddPolicyCtx
  \/ last.op = "none" /\ RemovePolicyCtx
  \/ last.op = "none" /\ RemoveFilteredPolicyCtx
  \/ last.op = "none" /\ UpdatePolicy
  \/ Return

Spec == Init /\ [][Next]_vars

----------------------------------------------------------------------------
(* Claims about the write operations                                       *)

\* the documents before or after a step
DocsAround == DOMAIN coll \cup DOMAIN coll'

\* the document holds the ptype and the rule's values in v0.., the fields past
\* the rule's length empty
Encodes(d, ptype, rule) ==
  /\ d.Ptype = ptype
  /\ \A i \in 0..(NumFields - 1) :
       Field(d, i) = IF i < Len(rule) THEN rule[i + 1] ELSE ""

\* the document agrees with the line on ptype and on every value field where
\* the line is non-empty
AgreesOnNonEmpty(doc, line) ==
  /\ doc.Ptype = line.Ptype
  /\ \A i \in 0..(NumFields - 1) : Field(line, i) # "" => Field(doc, i) = Field(line, i)

\* C5: RemovePolicy(ptype, rule) removes the documents that equal the rule on
\* ptype and on every one of v0..v5, and no other document
C5_RemovesExactRuleOnly ==
  [][(last'.op = "RemovePolicy" /\ last'.ok)
      => LET line == savePolicyLine(last'.ptype, last'.rule)
         IN \A d \in DocsAround :
              CopiesIn(d, coll') = IF d = line THEN 0 ELSE CopiesIn(d, coll)]_vars

\* C6: UpdatePolicy(ptype, old, new) turns every document of the ptype that
\* agrees with old on old's non-empty fields into new's document; every other
\* document stays, and the number of documents does not change
C6_UpdateFrame ==
  [][(last'.op = "UpdatePolicy" /\ last'.ok)
      => LET oldLine == savePolicyLine(last'.ptype, last'.rule)
             newLine == savePolicyLine(last'.ptype, last'.newRule)
             matched == {d \in DOMAIN coll : AgreesOnNonEmpty(d, oldLine)}
             rewritten == BagCardinality(Restrict(coll, matched))
         IN /\ \A d \in DocsAround \cup {newLine} :
                 CopiesIn(d, coll') =
                   (IF d \in matched THEN 0 ELSE CopiesIn(d, coll))
                   + (IF d = newLine THEN rewritten ELSE 0)
            /\ BagCardinality(coll') = BagCardinality(coll)]_vars

\* an update rewrote a document and left another document of the same ptype
C6_Witness ==
  /\ last.op = "UpdatePolicy" /\ last.ok /\ last.hit = 1
  /\ last.rule = <<"a", "b">> /\ last.newRule = <<"", "b">>
  /\ coll = SetToBag({savePolicyLine(last.ptype, <<"", "b">>),
                      savePolicyLine(last.ptype, <<"b", "", "", "", "", "a">>)})

\* C7: RemoveFilteredPolicy(ptype, i, values) removes the documents of the
\* ptype whose field v_(i+k) equals values[k] for every k with 0 <= i+k <= 5,
\* and no other document
C7_RemoveFiltered ==
  [][(last'.op = "RemoveFilteredPolicy" /\ last'.ok)
      => LET i == last'.fieldIndex
             values == last'.fieldValues
             Gone(d) ==
               /\ d.Ptype = last'.ptype
               /\ \A k \in 0..(Len(values) - 1) :
                    (0 <= i + k /\ i + k <= 5) => Field(d, i + k) = values[k + 1]
         IN \A d \in DocsAround :
              CopiesIn(d, coll') = IF Gone(d) THEN 0 ELSE CopiesIn(d, coll)]_vars

\* a filtered remove on field v1 took one document and left another one of the
\* same ptype
C7_Witness ==
  /\ last.op = "RemoveFilteredPolicy" /\ last.ok /\ last.hit = 1
  /\ last.fieldIndex = 1 /\ last.fieldValues = <<"b">>
  /\ coll = SetToBag({savePolicyLine(last.ptype, <<"a">>)})

\* the number of documents of the ptype
OfPtype(c, ptype) == BagCardinality(Restrict(c, {d \in DOMAIN c : d.Ptype = ptype}))

\* the offsets k whose position fieldIndex + k is one of the fields 0..5
InRange(fieldIndex, fieldValues) ==
  {k \in 0..(Len(fieldValues) - 1) : 0 <= fieldIndex + k /\ fieldIndex + k <= 5}

\* C22: for every fieldIndex, below 0, within 0..5 or above 5, and every list
\* of field values RemoveFilteredPolicy ends without a runtime fault; it
\* removes the documents of the ptype that agree with the values whose
\* position fieldIndex + k is within 0..5 and ignores the other values; when
\* no position is within 0..5 it removes every document of the ptype
C22_OutOfRangePositionsIgnored ==
  [][last'.op = "RemoveFilteredPolicy"
      => LET i == last'.fieldIndex
             values == last'.fieldValues
             Agrees(d) == \A k \in InRange(i, values) : Field(d, i + k) = values[k + 1]
         IN /\ last'.err # "index out of range"
            /\ last'.ok
                 => /\ \A d \in DocsAround :
                         CopiesIn(d, coll') =
                           IF d.Ptype = last'.ptype /\ Agrees(d) THEN 0
                           ELSE CopiesIn(d, coll)
                    /\ InRange(i, values) = {} => OfPtype(coll', last'.ptype) = 0]_vars

\* a filtered remove from fieldIndex 0 with seven values: the seventh value
\* has no field, and the one document that agrees with the first six values
\* is removed while the other document of the ptype stays
C22_Witness ==
  /\ last.op = "RemoveFilteredPolicy" /\ last.ok /\ last.hit = 1
  /\ last.fieldIndex = 0 /\ Len(last.fieldValues) = 7 /\ last.ptype = "p"
  /\ coll = SetToBag({savePolicyLine("p", <<"a">>)})

\* the rule has no value, or empty values only
AllEmpty(rule) == \A i \in 1..Len(rule) : rule[i] = ""

----------------------------------------------------------------------------
(* Loading and saving                                                      *)

\* the documents a collection may hold before the adapter is used on it,
\* among them one without ptype
StoredDocs ==
  { savePolicyLine("p", <<"a">>), savePolicyLine("p", <<"a", "b">>),
    savePolicyLine("g", <<"a">>), savePolicyLine("p", <<"", "b">>),
    savePolicyLine("g", <<"b", "", "", "", "", "a">>),
    savePolicyLine("", <<"a">>) }

\* the bag of the elements of a sequence
SeqToBag(s) ==
  [d \in {s[i] : i \in DOMAIN s} |-> Cardinality({i \in DOMAIN s : s[i] = d})]

StoredCollections ==
  {SeqToBag(s) : s \in UNION {[1..n -> StoredDocs] : n \in 0..MaxDocs}}

\* the models SavePolicy is called with: tuples of the sections p and g
Models ==
  { {},
    {<<"p", "a">>, <<"g", "a", "b">>},
    {<<"p", "a", "b">>, <<"p", "", "b">>},
    {<<"p", "a", "">>},
    {<<"g", "b", "", "", "", "", "a">>, <<"g">>} }

\* the models a load is called with: a fresh one, or one that holds a tuple
DestModels == { {}, {<<"p", "b">>} }

NoFilter == [Ptype |-> {}, V0 |-> {}, V1 |-> {}, V2 |-> {}, V3 |-> {}, V4 |-> {}, V5 |-> {}]

Filters ==
  { [NoFilter EXCEPT !.V0 = {"a"}],
    [NoFilter EXCEPT !.V0 = {"a", "b"}],
    [NoFilter EXCEPT !.Ptype = {"p"}, !.V1 = {"b"}],
    [NoFilter EXCEPT !.Ptype = {"p", "g"}, !.V0 = {"b", ""}, !.V5 = {"a", ""}],
    NoFilter }

\* the filter argument of LoadFilteredPolicy, by its dynamic type
FilterArgs ==
  {[type |-> "Filter", filters |-> <<f>>] : f \in Filters}
  \cup {[type |-> "*Filter", filters |-> <<[NoFilter EXCEPT !.V0 = {"a"}]>>]}
  \cup {[type |-> "[]Filter", filters |-> fs] :
          fs \in { <<>>,
                   <<[NoFilter EXCEPT !.V0 = {"a"}],
                     [NoFilter EXCEPT !.Ptype = {"p"}, !.V1 = {"b"}]>> }}
  \cup {[type |-> "BatchFilter", filters |-> fs] :
          fs \in { <<[NoFilter EXCEPT !.Ptype = {"p"}, !.V1 = {"b"}],
                     [NoFilter EXCEPT !.Ptype = {"p", "g"}, !.V0 = {"b", ""},
                                      !.V5 = {"a", ""}]>> }}
  \cup {[type |-> "*BatchFilter", filters |-> <<>>]}
  \cup {[type |-> "nil", filters |-> <<>>]}

FilterField(f, i) ==
  CASE i = 0 -> f.V0
    [] i = 1 -> f.V1
    [] i = 2 -> f.V2
    [] i = 3 -> f.V3
    [] i = 4 -> f.V4
    [] i = 5 -> f.V5

\* a variant that constrains the value fields and forgets the ptype
filterQueryNoPtype(f) ==
  LET fields == {i \in 0..5 : FilterField(f, i) # {}}
  IN [ptype |-> f.Ptype, fields |-> fields, v |-> [i \in fields |-> FilterField(f, i)],
      ptypeIn |-> FALSE]

\* LoadFilteredPolicyCtx: one IN condition for each non-empty candidate list
filterQuery(f) ==
  LET fields == {i \in 0..5 : FilterField(f, i) # {}}
  IN [ptype |-> f.Ptype, fields |-> fields, v |-> [i \in fields |-> FilterField(f, i)],
      ptypeIn |-> f.Ptype # {}]

\* conditions = append(conditions, "doc.vi IN @vi")
inClause(i) ==
  CASE i = 0 -> "doc.v0 IN @v0" [] i = 1 -> "doc.v1 IN @v1"
    [] i = 2 -> "doc.v2 IN @v2" [] i = 3 -> "doc.v3 IN @v3"
    [] i = 4 -> "doc.v4 IN @v4" [] i = 5 -> "doc.v5 IN @v5"

\* strings.Join(conditions, sep), as the pieces of the result
Join(conditions, sep) ==
  [k \in 1..(2 * Len(conditions) - 1) |->
     IF k % 2 = 1 THEN conditions[(k + 1) \div 2] ELSE sep]

\* the query LoadFilteredPolicyCtx hands to a.db.Query for one filter
returnQuery(q) ==
  LET conditions ==
        Appended(<<IF q.ptypeIn THEN "doc.ptype IN @ptype" ELSE "">>
                   \o [i \in 1..6 |-> IF (i - 1) \in q.fields THEN inClause(i - 1) ELSE ""])
  IN [q |-> q,
      text |-> <<"FOR doc IN @@collection">>
                 \o (IF Len(conditions) > 0
                     THEN <<" FILTER ">> \o Join(conditions, " AND ")
                     ELSE <<>>)
                 \o <<" RETURN doc">>,
      bindVars |-> {<<"@collection", collectionName>>}
                     \cup (IF q.ptypeIn THEN {<<"ptype", q.ptype>>} ELSE {})
                     \cup {<<vName(i), q.v[i]>> : i \in q.fields}]

\* FILTER doc.ptype IN @ptype AND doc.v0 IN @v0 AND ..
SelectsIn(q, doc) ==
  /\ q.ptypeIn => doc.Ptype \in q.ptype
  /\ \A i \in q.fields : Field(doc, i) \in q.v[i]

\* FOR doc IN @@collection [FILTER ..] RETURN doc
QueryReturn(c, q) == Restrict(c, {d \in DOMAIN c : SelectsIn(q, d)})

\* the cursor loop: loadPolicyLine on every document read
RECURSIVE loadLines(_, _)
loadLines(docs, m) ==
  IF docs = {} THEN m
  ELSE LET d == CHOOSE x \in docs : TRUE
       IN loadLines(docs \ {d}, loadPolicyLine(d, m).model)

\* the sets of documents a cursor over `found` may have delivered when the
\* query, a ReadDocument or a loadPolicyLine returns an error: none, or some
\* with at least one document left
ReadBeforeError(found) ==
  {S \in SUBSET DOMAIN found :
     S = {} \/ BagCardinality(Restrict(found, S)) < BagCardinality(found)}

\* the model after the filters 1..n have been loaded in full
RECURSIVE loadFilters(_, _, _, _)
loadFilters(c, filters, n, m) ==
  IF n = 0 THEN m
  ELSE loadLines(DOMAIN QueryReturn(c, filterQuery(filters[n])),
                 loadFilters(c, filters, n - 1, m))

\* a variant that leaves the collection as it is
TruncateNothing(c) == c

\* collection.Truncate(ctx)
Truncate(c) == EmptyBag

\* collection.CreateDocuments(ctx, batch)
CreateDocuments(c, batch) == c (+) SeqToBag(batch)

\* the rules of a model in the order SavePolicyCtx ranges over them: section
\* p, then section g
RECURSIVE SetToSeq(_)
SetToSeq(S) ==
  IF S = {} THEN <<>>
  ELSE LET x == CHOOSE y \in S : TRUE IN <<x>> \o SetToSeq(S \ {x})

Section(m, sec) == {t \in m : SubSeq(t[1], 1, 1) = sec}

PolicyLines(m) ==
  LET lines(sec) == [i \in 1..Cardinality(Section(m, sec)) |->
                       LET t == SetToSeq(Section(m, sec))[i]
                       IN savePolicyLine(t[1], Tail(t))]
  IN lines("p") \o lines("g")

----------------------------------------------------------------------------
(* SpecLoad: SavePolicy and the two loads on a collection with any content *)

InitLoad ==
  /\ coll \in StoredCollections
  /\ model = {}
  /\ isFiltered = FALSE
  /\ last = NoCall
  /\ codec = NoCodec
  /\ TxInit

\* the batch size of SavePolicyCtx
batchSize == 1000

NumBatches(n) == (n + batchSize - 1) \div batchSize

SavePolicyCtx ==
  \E m \in Models :
    LET rules == PolicyLines(m)
    IN /\ model' = m
       /\ UNCHANGED <<isFiltered, codec, txVars>>
       /\ \/ \* Truncate returns an error
             /\ coll' = coll
             /\ last' = [NoCall EXCEPT !.op = "SavePolicy", !.ok = FALSE]
          \/ \* the bulk insert of batch k returns an error
             \E k \in 1..NumBatches(Len(rules)) :
               /\ coll' = CreateDocuments(Truncate(coll),
                                          SubSeq(rules, 1, (k - 1) * batchSize))
               /\ last' = [NoCall EXCEPT !.op = "SavePolicy", !.ok = FALSE, !.hit = k]
          \/ /\ coll' = CreateDocuments(Truncate(coll), rules)
             /\ last' = [NoCall EXCEPT !.op = "SavePolicy"]

LoadPolicyCtx ==
  \E dest \in DestModels :
    /\ UNCHANGED <<coll, isFiltered, codec, txVars>>
    /\ \/ \E read \in ReadBeforeError(coll) :
            /\ model' = loadLines(read, dest)
            /\ last' = [NoCall EXCEPT !.op = "LoadPolicy", !.ok = FALSE, !.dest = dest]
       \/ /\ model' = loadLines(DOMAIN coll, dest)
          /\ last' = [NoCall EXCEPT !.op = "LoadPolicy", !.dest = dest]

\* the queries of the filters 1..n, in order
queriesOf(filters, n) == [k \in 1..n |-> returnQuery(filterQuery(filters[k]))]

LoadFilteredPolicyCtx ==
  \E dest \in DestModels, filter \in FilterArgs :
    LET filters == filter.filters
        call == [NoCall EXCEPT !.op = "LoadFilteredPolicy", !.dest = dest,
                               !.filter = filter]
    IN /\ UNCHANGED <<coll, codec, txVars>>
       /\ IF filter.type \notin {"Filter", "*Filter", "[]Filter", "BatchFilter",
                                 "*BatchFilter"}
          THEN \* default: return nil
               /\ model' = dest
               /\ last' = call
               /\ UNCHANGED isFiltered
          ELSE IF Len(filters) = 0
          THEN \* return a.LoadPolicyCtx(ctx, model)
               /\ UNCHANGED isFiltered
               /\ \/ \E read \in ReadBeforeError(coll) :
                       /\ model' = loadLines(read, dest)
                       /\ last' = [call EXCEPT !.ok = FALSE]
                  \/ /\ model' = loadLines(DOMAIN coll, dest)
                     /\ last' = call
          ELSE \/ \E n \in 1..Len(filters) :
                    \E read \in ReadBeforeError(QueryReturn(coll, filterQuery(filters[n]))) :
                      /\ model' = loadLines(read, loadFilters(coll, filters, n - 1, dest))
                      /\ last' = [call EXCEPT !.ok = FALSE, !.hit = n,
                                              !.queries = queriesOf(filters, n)]
                      /\ UNCHANGED isFiltered
               \/ /\ model' = loadFilters(coll, filters, Len(filters), dest)
                  /\ last' = [call EXCEPT !.queries = queriesOf(filters, Len(filters))]
                  /\ isFiltered' = TRUE

\* SpecQuery: the operations that build a query, on a collection with any
\* content
NextQuery ==
  \/ RemovePolicyCtx
  \/ RemoveFilteredPolicyCtx
  \/ UpdatePolicy
  \/ LoadFilteredPolicyCtx

SpecQuery == Init /\ [][NextQuery]_vars

\* the fields a query constrains; -1 stands for a constrained ptype
Constrained(query) ==
  query.q.fields \cup (IF "ptypeIn" \in DOMAIN query.q /\ query.q.ptypeIn THEN {-1} ELSE {})

\* the values of a sequence
Range(s) == {s[i] : i \in DOMAIN s}

\* the non-empty values the caller supplied to the call
Supplied(call) ==
  IF call.op = "LoadFilteredPolicy"
  THEN UNION {f.Ptype \cup UNION {FilterField(f, i) : i \in 0..5} :
                f \in Range(call.filter.filters)} \ {""}
  ELSE ({call.ptype} \cup Range(call.rule) \cup Range(call.newRule)
          \cup Range(call.fieldValues)) \ {""}

\* C19: the text of a remove, update or filtered-load query is determined by
\* the fields it constrains alone: two calls of an operation that constrain the
\* same fields have the same query text, whatever the ptype and the values;
\* no value supplied by the caller is a piece of the text, and the value of
\* every constrained field is a bound parameter
C19_TextFromConstrainedFields ==
  [][/\ ( /\ last.op = last'.op
          /\ Len(last.queries) = Len(last'.queries)
          /\ \A k \in DOMAIN last.queries :
               Constrained(last.queries[k]) = Constrained(last'.queries[k]) )
          => \A k \in DOMAIN last.queries :
               last.queries[k].text = last'.queries[k].text
     /\ \A k \in DOMAIN last'.queries :
          LET query == last'.queries[k]
          IN /\ Range(query.text) \cap Supplied(last') = {}
             /\ \A i \in query.q.fields : <<vName(i), query.q.v[i]>> \in query.bindVars
             /\ -1 \in Constrained(query) \/ last'.op # "LoadFilteredPolicy"
                  => <<"ptype", query.q.ptype>> \in query.bindVars]_vars

\* RemovePolicy was called with a rule whose first value is empty: the text
\* has the one condition on v1, and the ptype and the value are bound
C19_Witness ==
  /\ last.op = "RemovePolicy" /\ last.ptype = "g" /\ last.rule = <<"", "b">>
  /\ last.queries[1].text =
       <<"FOR doc IN @@collection FILTER doc.ptype == @ptype", " && doc.v1 == @v1",
         " REMOVE doc IN @@collection">>
  /\ last.queries[1].bindVars =
       {<<"@collection", collectionName>>, <<"ptype", "g">>, <<"v1", "b">>}

NextLoad ==
  \/ SavePolicyCtx
  \/ LoadPolicyCtx
  \/ LoadFilteredPolicyCtx

SpecLoad == InitLoad /\ [][NextLoad]_vars

----------------------------------------------------------------------------
(* Claims about saving and loading                                         *)

\* the tuple of a document with a ptype: the ptype, then v0 up to the last
\* non-empty value
TupleOf(doc) ==
  LET values == <<doc.V0, doc.V1, doc.V2, doc.V3, doc.V4, doc.V5>>
  IN <<doc.Ptype>> \o Prefix(values, LastNonEmpty(values))

\* a successful unfiltered load into a fresh model right after a successful save
LoadAfterSave ==
  /\ last.op = "SavePolicy" /\ last.ok
  /\ last'.op = "LoadPolicy" /\ last'.ok /\ last'.dest = {}

\* C3 as stated: after SavePolicy(m) succeeds, LoadPolicy into a fresh model
\* yields exactly the tuples of m
C3_SaveThenLoadExact ==
  [][LoadAfterSave => model' = model]_vars

\* C3 as amended: the load yields the tuples of m, each without its trailing
\* empty values, and nothing else
C3_SaveThenLoadTrimmed ==
  [][LoadAfterSave
      => model' = {<<t[1]>> \o Prefix(Tail(t), LastNonEmpty(Tail(t))) : t \in model}]_vars

\* a model of two tuples was saved over other content and loaded back
C3_Witness ==
  /\ last.op = "LoadPolicy" /\ last.ok /\ last.dest = {}
  /\ model = {<<"p", "a">>, <<"g", "a", "b">>}
  /\ coll = SetToBag({savePolicyLine("p", <<"a">>), savePolicyLine("g", <<"a", "b">>)})

\* the document satisfies the filter: its ptype and each of its values is a
\* member of the filter's candidate set, where that set is not empty
Satisfies(doc, f) ==
  /\ f.Ptype = {} \/ doc.Ptype \in f.Ptype
  /\ \A i \in 0..(NumFields - 1) : FilterField(f, i) = {} \/ Field(doc, i) \in FilterField(f, i)

\* C8: a successful LoadFilteredPolicy with one or more filters adds to the
\* model the rules of the documents (those that have a ptype) that satisfy at
\* least one of the filters, each once, adds no other rule and keeps the rules
\* the model held; afterwards IsFiltered() is true
C8_LoadFiltered ==
  [][(/\ last'.op = "LoadFilteredPolicy" /\ last'.ok
      /\ last'.filter.type # "nil"
      /\ Len(last'.filter.filters) >= 1)
      => LET filters == last'.filter.filters
         IN /\ model' = last'.dest \cup
                 {TupleOf(d) : d \in {x \in DOMAIN coll :
                    /\ x.Ptype # ""
                    /\ \E n \in 1..Len(filters) : Satisfies(x, filters[n])}}
            /\ isFiltered']_vars

\* two filters were loaded into a model that held a tuple; one document
\* satisfied a filter and the other document satisfied none
C8_Witness ==
  /\ last.op = "LoadFilteredPolicy" /\ last.ok
  /\ Len(last.filter.filters) = 2
  /\ last.dest = {<<"p", "b">>}
  /\ coll = SetToBag({savePolicyLine("p", <<"a", "b">>), savePolicyLine("g", <<"a">>)})
  /\ last.filter.filters[1].Ptype = {"p"}
  /\ model = {<<"p", "b">>, <<"p", "a", "b">>}
  /\ isFiltered

\* the tuples of the stored documents that have a ptype
StoredPolicy(c) == {TupleOf(d) : d \in {x \in DOMAIN c : x.Ptype # ""}}

\* the filter argument selects nothing: its type is none of Filter, *Filter,
\* []Filter, BatchFilter, *BatchFilter, or its list of filters is empty
NoUsableFilter(filter) ==
  \/ filter.type \notin {"Filter", "*Filter", "[]Filter", "BatchFilter", "*BatchFilter"}
  \/ Len(filter.filters) = 0

\* C24: a LoadFilteredPolicy without a usable filter, an empty list of filters
\* or an argument of another type such as nil, that returns nil has loaded
\* every stored policy into the model
C24_NoFilterLoadsEverything ==
  [][(/\ last'.op = "LoadFilteredPolicy" /\ last'.ok
      /\ NoUsableFilter(last'.filter))
      => model' = last'.dest \cup StoredPolicy(coll)]_vars

\* the documents the queries of a load select: all of them for LoadPolicy and
\* for an empty list of filters, those that satisfy a filter otherwise
Selected(call, c) ==
  IF call.op = "LoadPolicy" THEN DOMAIN c
  ELSE IF call.filter.type = "nil" THEN {}
  ELSE IF Len(call.filter.filters) = 0 THEN DOMAIN c
  ELSE {d \in DOMAIN c :
          \E n \in 1..Len(call.filter.filters) : Satisfies(d, call.filter.filters[n])}

\* C25: LoadPolicy and LoadFilteredPolicy skip a stored document without
\* ptype: the load adds nothing to the model for it, and a load that returns
\* nil has loaded every other document its queries select
C25_EmptyPtypeSkipped ==
  [][(/\ last'.op \in {"LoadPolicy", "LoadFilteredPolicy"}
      /\ \E d \in Selected(last', coll) : d.Ptype = "")
      => /\ (model' \ last'.dest) \subseteq StoredPolicy(coll)
         /\ last'.ok
              => model' = last'.dest \cup
                   {TupleOf(d) : d \in {x \in Selected(last', coll) : x.Ptype # ""}}]_vars

\* a filter on v0 selected the document without ptype and a document with a
\* ptype; the load returned nil with the rule of the second one only
C25_Witness ==
  /\ last.op = "LoadFilteredPolicy" /\ last.ok
  /\ last.filter.type = "Filter" /\ last.filter.filters[1].V0 = {"a"}
  /\ last.dest = {}
  /\ coll = SetToBag({savePolicyLine("", <<"a">>), savePolicyLine("p", <<"a">>)})
  /\ model = {<<"p", "a">>}

\* C29: when a LoadFilteredPolicy call has added to the model a rule that a
\* query restricted by a filter returned, IsFiltered() is true when the call
\* returns, with nil or with an error after a part of the load
C29_FilteredOnceRuleAdded ==
  [][(/\ last'.op = "LoadFilteredPolicy"
      /\ ~NoUsableFilter(last'.filter)
      /\ model' # last'.dest)
      => isFiltered']_vars

\* C9: an unfiltered LoadPolicy that succeeds after a filtered load resets the
\* filtered flag, so IsFiltered() is false after it
C9_LoadPolicyResetsFiltered ==
  [][(/\ last.op = "LoadFilteredPolicy" /\ last.ok /\ isFiltered
      /\ last'.op = "LoadPolicy" /\ last'.ok)
      => ~isFiltered']_vars

\* a load that returned an error
FailedLoad ==
  /\ last'.op \in {"LoadPolicy", "LoadFilteredPolicy"}
  /\ ~last'.ok

\* C14 as stated: when LoadPolicy or LoadFilteredPolicy returns an error, the
\* model is as it was before the call
C14_FailedLoadKeepsModel ==
  [][FailedLoad => model' = last'.dest]_vars

\* the documents the call reads when nothing fails: those with a ptype that,
\* for a load with filters, satisfy one of the filters
Loadable(call) ==
  {x \in DOMAIN coll :
     /\ x.Ptype # ""
     /\ \/ call.op = "LoadPolicy"
        \/ Len(call.filter.filters) = 0
        \/ \E n \in 1..Len(call.filter.filters) : Satisfies(x, call.filter.filters[n])}

\* C14 as amended: when a load returns an error, the model holds every rule it
\* held before the call, and any other rule it holds is the rule of a
\* document the call reads
C14_FailedLoadKeepsOldRules ==
  [][FailedLoad
      => /\ last'.dest \subseteq model'
         /\ model' \subseteq last'.dest \cup {TupleOf(d) : d \in Loadable(last')}]_vars

\* a load failed after it had read one of the two documents
C14_Witness ==
  /\ last.op = "LoadPolicy" /\ ~last.ok
  /\ last.dest = {<<"p", "b">>}
  /\ coll = SetToBag({savePolicyLine("p", <<"a">>), savePolicyLine("g", <<"a">>)})
  /\ model = {<<"p", "b">>, <<"g", "a">>}

----------------------------------------------------------------------------
(* Transactions                                                            *)
(* A streaming transaction of the database collects the writes issued      *)
(* through it; Commit applies them to the collection and Abort drops them. *)
(* A write issued outside any transaction is applied at once.              *)

\* at most MaxTx transactions are begun
MaxTx == 2

\* the rules the enforcer and the transaction adapter are called with, all of
\* ptype p
TxRules == { <<"a">>, <<"a", "b">> }

ApplyWrite(c, w) ==
  CASE w.kind = "insert" -> CreateDocument(c, w.line)
    [] w.kind = "remove" -> QueryRemove(c, w.query)
    [] w.kind = "update" -> QueryUpdate(c, w.query, w.line)

RECURSIVE ApplyWrites(_, _)
ApplyWrites(c, ws) ==
  IF ws = <<>> THEN c ELSE ApplyWrites(ApplyWrite(c, Head(ws)), Tail(ws))

\* a variant in which the calls of an adapter run in the adapter's transaction
callTransactionBound(a) == adapters[a].transaction

\* the transaction a database call of adapter `a` runs in, 0 for none: every
\* operation calls a.collection or a.db with the caller's context, and no
\* operation reads a.transaction
callTransaction(a) == 0

\* a write of adapter `a` reaches the database
Write(a, w) ==
  IF callTransaction(a) = 0
  THEN /\ coll' = ApplyWrite(coll, w)
       /\ UNCHANGED txs
  ELSE /\ txs' = [txs EXCEPT ![callTransaction(a)].writes = Append(@, w)]
       /\ UNCHANGED coll

InsertOf(rule) == [line |-> savePolicyLine("p", rule), kind |-> "insert"]
RemoveOf(rule) == [kind |-> "remove", query |-> exactMatchQuery(savePolicyLine("p", rule))]

\* db.BeginTransaction: the transactions with a new one, running
BeginTx == Append(txs, [writes |-> <<>>, status |-> "running"])

\* Adapter.Copy: a new adapter with the fields of `a` and no transaction
Copy(a) ==
  [isFiltered |-> adapters[a].isFiltered, transaction |-> 0,
   transactionMu |-> adapters[a].transactionMu, copyOf |-> a]

\* the adapter Transaction builds around its transaction
TxAdapterOf(a, tx) ==
  [isFiltered |-> adapters[a].isFiltered, transaction |-> tx,
   transactionMu |-> adapters[a].transactionMu, copyOf |-> 0]

InTransaction == frame.pc = "fc"

\* a variant that looks at committed only
atxFinishedCommittedOnly == atx.committed

\* if atx.committed || atx.rolledBack
atxFinished == atx.committed \/ atx.rolledBack

AtxActive == atx.tx # 0 /\ ~atxFinished

----------------------------------------------------------------------------
(* SpecTx: an enforcer with auto-save on one adapter; its policy changes,  *)
(* Adapter.Transaction around some of them, and the BeginTransaction API   *)

InitTx ==
  /\ coll = EmptyBag
  /\ model = {}
  /\ isFiltered = FALSE
  /\ last = NoCall
  /\ codec = NoCodec
  /\ TxInit

\* e.AddPolicy(rule), inside the supplied function or outside a transaction:
\* a rule the model holds is left alone, else the adapter is called and, when
\* it succeeds, the rule joins the model
EnforcerAddPolicy ==
  \E rule \in TxRules, ok \in BOOLEAN :
    /\ ~AtxActive
    /\ <<"p">> \o rule \notin model
    /\ BagCardinality(coll) < MaxDocs
    /\ IF ok
       THEN /\ Write(eAdapter, InsertOf(rule))
            /\ model' = model \cup {<<"p">> \o rule}
       ELSE UNCHANGED <<coll, txs, model>>
    /\ frame' = IF InTransaction /\ ok THEN [frame EXCEPT !.wrote = TRUE] ELSE frame
    /\ UNCHANGED <<isFiltered, last, codec, mu, procs, adapters, eAdapter, atx>>

\* e.RemovePolicy(rule)
EnforcerRemovePolicy ==
  \E rule \in TxRules, ok \in BOOLEAN :
    /\ ~AtxActive
    /\ <<"p">> \o rule \in model
    /\ IF ok
       THEN /\ Write(eAdapter, RemoveOf(rule))
            /\ model' = model \ {<<"p">> \o rule}
       ELSE UNCHANGED <<coll, txs, model>>
    /\ frame' = IF InTransaction /\ ok THEN [frame EXCEPT !.wrote = TRUE] ELSE frame
    /\ UNCHANGED <<isFiltered, last, codec, mu, procs, adapters, eAdapter, atx>>

\* a.Transaction(e, fc) up to the call of fc: lock, copy, begin, substitute;
\* the caller is goroutine 1, and the deferred Unlock runs when the call returns
TransactionBegin ==
  \E a \in {1, eAdapter}, ok \in BOOLEAN :
    /\ frame.pc # "fc"
    /\ ~AtxActive
    /\ Len(txs) < MaxTx
    /\ UNCHANGED <<coll, model, isFiltered, last, codec, procs, atx>>
    /\ mu[adapters[a].transactionMu] = 0
    /\ mu' = IF ok THEN [mu EXCEPT ![adapters[a].transactionMu] = 1] ELSE mu
    /\ IF ok
       THEN LET originalAdapter == Len(adapters) + 1
                txAdapter == Len(adapters) + 2
                tx == Len(txs) + 1
            IN /\ txs' = BeginTx
               /\ adapters' = adapters \o << Copy(a), TxAdapterOf(a, tx) >>
               /\ eAdapter' = txAdapter
               /\ frame' = [NoFrame EXCEPT !.pc = "fc", !.a = a, !.held = eAdapter,
                              !.originalAdapter = originalAdapter,
                              !.txAdapter = txAdapter, !.tx = tx, !.preColl = coll,
                              !.log = <<[ok |-> TRUE, call |-> "BeginTransaction"]>>]
       ELSE \* BeginTransaction returns an error; the copy is dropped
            /\ frame' = [NoFrame EXCEPT !.pc = "returned", !.a = a, !.held = eAdapter,
                           !.preColl = coll, !.result = "beginErr",
                           !.log = <<[ok |-> FALSE, call |-> "BeginTransaction"]>>]
            /\ UNCHANGED <<adapters, eAdapter, txs>>

\* a variant that commits whatever fc returned
finalCallCommit(fcErr) == "Commit"

\* the call that ends the database transaction: tx.Abort when fc returned an
\* error, tx.Commit otherwise
finalCall(fcErr) == IF fcErr THEN "Abort" ELSE "Commit"

\* a variant that returns the error of fc whatever abort and reload did
returnedFcFirst(fcErr, finalOk, loadOk) ==
  IF fcErr THEN "fcErr" ELSE IF ~finalOk THEN "commitErr" ELSE "ok"

\* what Transaction returns after fc: abortErr, loadErr or err when fc
\* returned an error, commitErr or nil otherwise
returned(fcErr, finalOk, loadOk) ==
  IF fcErr
  THEN IF ~finalOk THEN "abortErr" ELSE IF ~loadOk THEN "loadErr" ELSE "fcErr"
  ELSE IF ~finalOk THEN "commitErr" ELSE "ok"

\* a.Transaction(e, fc) from the return of fc: restore, then abort and reload,
\* or commit
TransactionEnd ==
  \E fcErr \in BOOLEAN, finalOk \in BOOLEAN, loadOk \in BOOLEAN :
    LET ran == [frame EXCEPT !.pc = "returned",
                             !.fc = IF fcErr THEN "error" ELSE "nil"]
        abort == [ok |-> finalOk, call |-> finalCall(TRUE)]
        load == [ok |-> loadOk, call |-> "LoadPolicy"]
        commit == [ok |-> finalOk, call |-> finalCall(FALSE)]
    IN
    /\ frame.pc = "fc"
    /\ eAdapter' = frame.originalAdapter
    /\ mu' = [mu EXCEPT ![adapters[frame.a].transactionMu] = 0]
    /\ UNCHANGED <<isFiltered, last, codec, procs, adapters, atx>>
    /\ IF fcErr
       THEN IF ~finalOk
            THEN \* tx.Abort returns an error
                 /\ frame' = [ran EXCEPT !.result = returned(fcErr, finalOk, loadOk),
                                         !.log = Append(@, abort)]
                 /\ UNCHANGED <<coll, model, txs>>
            ELSE /\ txs' = [txs EXCEPT ![frame.tx].status = "aborted"]
                 /\ UNCHANGED coll
                 /\ IF loadOk
                    THEN \* e.LoadPolicy() replaces the model by the stored policy
                         /\ model' = loadLines(DOMAIN coll, {})
                         /\ frame' = [ran EXCEPT !.result = returned(fcErr, finalOk, loadOk),
                                                 !.log = @ \o <<abort, load>>]
                    ELSE /\ model' = model
                         /\ frame' = [ran EXCEPT !.result = returned(fcErr, finalOk, loadOk),
                                                 !.log = @ \o <<abort, load>>]
       ELSE IF ~finalOk
            THEN \* tx.Commit returns an error
                 /\ frame' = [ran EXCEPT !.result = returned(fcErr, finalOk, loadOk),
                                         !.log = Append(@, commit)]
                 /\ UNCHANGED <<coll, model, txs>>
            ELSE /\ txs' = [txs EXCEPT ![frame.tx].status = "committed"]
                 /\ coll' = ApplyWrites(coll, txs[frame.tx].writes)
                 /\ model' = model
                 /\ frame' = [ran EXCEPT !.result = returned(fcErr, finalOk, loadOk),
                                         !.log = Append(@, commit)]

\* a.BeginTransaction(ctx)
BeginTransaction ==
  \E a \in {1, eAdapter}, ok \in BOOLEAN :
    /\ frame.pc # "fc"
    /\ ~AtxActive
    /\ Len(txs) < MaxTx
    /\ UNCHANGED <<coll, model, isFiltered, last, codec, mu, procs, adapters, eAdapter, frame>>
    /\ IF ok
       THEN /\ txs' = BeginTx
            /\ atx' = [NoAtx EXCEPT !.tx = Len(txs) + 1, !.adapter = a, !.preColl = coll]
       ELSE UNCHANGED <<txs, atx>>

\* atx.GetAdapter(): a new adapter that carries the transaction
GetAdapter ==
  /\ AtxActive
  /\ atx.txAdapter = 0
  /\ adapters' = Append(adapters, [isFiltered |-> adapters[atx.adapter].isFiltered,
                                   transaction |-> atx.tx, transactionMu |-> 0,
                                   copyOf |-> 0])
  /\ atx' = [atx EXCEPT !.txAdapter = Len(adapters) + 1]
  /\ UNCHANGED <<coll, model, isFiltered, last, codec, mu, procs, eAdapter, txs, frame>>

\* AddPolicy on the adapter GetAdapter returned
TxAdapterAddPolicy ==
  \E rule \in TxRules :
    /\ AtxActive
    /\ atx.txAdapter # 0
    /\ BagCardinality(coll) < MaxDocs
    /\ Write(atx.txAdapter, InsertOf(rule))
    /\ atx' = [atx EXCEPT !.wrote = TRUE]
    /\ UNCHANGED <<model, isFiltered, last, codec, mu, procs, adapters, eAdapter, frame>>

\* RemovePolicy on the adapter GetAdapter returned
TxAdapterRemovePolicy ==
  \E rule \in TxRules :
    /\ AtxActive
    /\ atx.txAdapter # 0
    /\ Write(atx.txAdapter, RemoveOf(rule))
    /\ atx' = [atx EXCEPT !.wrote = TRUE]
    /\ UNCHANGED <<model, isFiltered, last, codec, mu, procs, adapters, eAdapter, frame>>

\* atx.Commit()
Commit ==
  \E ok \in BOOLEAN :
    /\ atx.tx # 0
    /\ UNCHANGED <<model, isFiltered, codec, mu, procs, adapters, eAdapter, frame>>
    /\ IF atxFinished
       THEN /\ last' = [NoCall EXCEPT !.op = "Commit", !.ok = FALSE,
                                      !.err = "transaction already finished"]
            /\ UNCHANGED <<coll, txs, atx>>
       ELSE IF ok
       THEN /\ txs' = [txs EXCEPT ![atx.tx].status = "committed"]
            /\ coll' = ApplyWrites(coll, txs[atx.tx].writes)
            /\ atx' = [atx EXCEPT !.committed = TRUE]
            /\ last' = [NoCall EXCEPT !.op = "Commit", !.calls = 1]
       ELSE \* tx.Commit returns an error
            /\ last' = [NoCall EXCEPT !.op = "Commit", !.ok = FALSE,
                                      !.err = "database", !.calls = 1]
            /\ UNCHANGED <<coll, txs, atx>>

\* atx.Rollback()
Rollback ==
  \E ok \in BOOLEAN :
    /\ atx.tx # 0
    /\ UNCHANGED <<coll, model, isFiltered, codec, mu, procs, adapters, eAdapter, frame>>
    /\ IF atxFinished
       THEN /\ last' = [NoCall EXCEPT !.op = "Rollback", !.ok = FALSE,
                                      !.err = "transaction already finished"]
            /\ UNCHANGED <<txs, atx>>
       ELSE IF ok
       THEN /\ txs' = [txs EXCEPT ![atx.tx].status = "aborted"]
            /\ atx' = [atx EXCEPT !.rolledBack = TRUE]
            /\ last' = [NoCall EXCEPT !.op = "Rollback", !.calls = 1]
       ELSE \* tx.Abort returns an error
            /\ last' = [NoCall EXCEPT !.op = "Rollback", !.ok = FALSE,
                                      !.err = "database", !.calls = 1]
            /\ UNCHANGED <<txs, atx>>

NextTx ==
  \/ EnforcerAddPolicy
  \/ EnforcerRemovePolicy
  \/ TransactionBegin
  \/ TransactionEnd
  \/ BeginTransaction
  \/ GetAdapter
  \/ TxAdapterAddPolicy
  \/ TxAdapterRemovePolicy
  \/ Commit
  \/ Rollback

SpecTx == InitTx /\ [][NextTx]_vars

\* SpecRun: Adapter.Transaction alone, with the writes of the enforcer
NextRun ==
  \/ EnforcerAddPolicy
  \/ EnforcerRemovePolicy
  \/ TransactionBegin
  \/ TransactionEnd

SpecRun == InitTx /\ [][NextRun]_vars

\* how often the Transaction call that returned last has made the database call
CallsOf(name) == Cardinality({i \in DOMAIN frame.log : frame.log[i].call = name})

\* C21: a Transaction that has returned made Commit once and Abort never when
\* fc returned nil, Abort once and Commit never when fc returned an error;
\* when BeginTransaction failed, fc was not run, neither call was made and the
\* enforcer holds the adapter it held before
C21_FinalizedExactlyOnce ==
  frame.pc = "returned"
    => /\ frame.log[1].call = "BeginTransaction"
       /\ frame.log[1].ok
            => /\ frame.fc \in {"nil", "error"}
               /\ frame.fc = "nil" => CallsOf("Commit") = 1 /\ CallsOf("Abort") = 0
               /\ frame.fc = "error" => CallsOf("Abort") = 1 /\ CallsOf("Commit") = 0
       /\ ~frame.log[1].ok
            => /\ frame.fc = "none"
               /\ CallsOf("Commit") = 0 /\ CallsOf("Abort") = 0
               /\ eAdapter = frame.held

\* fc wrote through the transaction adapter and returned an error: the
\* transaction was aborted and the policy reloaded
\* the outcome of the named call of the Transaction call that has returned
OkOf(name) == \A i \in DOMAIN frame.log : frame.log[i].call = name => frame.log[i].ok

\* C28 as stated: when fc returned an error, Transaction returns that error,
\* whatever the abort and the reload did
C28_ReturnsErrorOfFc ==
  (frame.pc = "returned" /\ frame.fc = "error") => frame.result = "fcErr"

\* C28: when fc returned an error, Transaction returns that error if the abort
\* and the reload succeed; it returns the error of the abort when the abort
\* fails, without a reload, and the error of the reload when the reload fails
C28_ReturnsFirstFailureAfterFc ==
  (frame.pc = "returned" /\ frame.fc = "error")
    => /\ CallsOf("Abort") = 1
       /\ frame.result = IF ~OkOf("Abort") THEN "abortErr"
                         ELSE IF ~OkOf("LoadPolicy") THEN "loadErr"
                         ELSE "fcErr"
       /\ ~OkOf("Abort") => CallsOf("LoadPolicy") = 0
       /\ OkOf("Abort") => CallsOf("LoadPolicy") = 1

\* fc returned an error, the abort succeeded and the reload failed: the call
\* returned the error of the reload
C28_Witness ==
  /\ frame.pc = "returned" /\ frame.fc = "error" /\ frame.result = "loadErr"
  /\ frame.log = << [ok |-> TRUE, call |-> "BeginTransaction"],
                    [ok |-> TRUE, call |-> "Abort"],
                    [ok |-> FALSE, call |-> "LoadPolicy"] >>

C21_Witness ==
  /\ frame.pc = "returned" /\ frame.fc = "error" /\ frame.wrote
  /\ frame.log = <<[ok |-> TRUE, call |-> "BeginTransaction"],
                   [ok |-> TRUE, call |-> "Abort"],
                   [ok |-> TRUE, call |-> "LoadPolicy"]>>

\* SpecAtx: the BeginTransaction API alone, without Adapter.Transaction
NextAtx ==
  \/ BeginTransaction
  \/ GetAdapter
  \/ TxAdapterAddPolicy
  \/ TxAdapterRemovePolicy
  \/ Commit
  \/ Rollback

SpecAtx == InitTx /\ [][NextAtx]_vars

----------------------------------------------------------------------------
(* Claims about transactions                                               *)

\* C1: when the supplied function returns an error after changing rules
\* through the enforcer, then, Transaction having returned that error, the
\* collection holds the documents it held when Transaction was called and the
\* enforcer's model equals that stored policy
C1_FailedTransactionRollsBack ==
  (frame.pc = "returned" /\ frame.result = "fcErr" /\ frame.wrote)
    => /\ coll = frame.preColl
       /\ model = {TupleOf(d) : d \in DOMAIN frame.preColl}

\* C2: a change made through the adapter of GetAdapter is not in the
\* collection before Commit succeeds, and after Rollback succeeds the
\* collection holds the documents it held at BeginTransaction
C2_TransactionAdapterIsolated ==
  (atx.tx # 0 /\ atx.wrote /\ ~atx.committed) => coll = atx.preColl

\* C10: while the supplied function runs the enforcer holds the transaction
\* adapter, and once Transaction has returned after running it the enforcer
\* holds the adapter object it held before the call
C10_AdapterSubstitutedAndRestored ==
  /\ frame.pc = "fc"
       => eAdapter = frame.txAdapter /\ adapters[eAdapter].transaction = frame.tx
  /\ (frame.pc = "returned" /\ frame.result # "beginErr") => eAdapter = frame.held

\* C12: an ArangoTransactionContext leaves the active state only by a Commit or
\* a Rollback that succeeds; from then on it does not change, every Commit or
\* Rollback returns "transaction already finished" without a database call,
\* and committed and rolledBack are never both true
C12_TerminalOnceFinished ==
  [][atx'.tx = atx.tx
      => /\ ~(atx'.committed /\ atx'.rolledBack)
         /\ (~atxFinished /\ atxFinished')
              => /\ last'.op \in {"Commit", "Rollback"} /\ last'.ok
                 /\ atx'.committed = (last'.op = "Commit")
         /\ atxFinished
              => /\ atx' = atx
                 /\ txs'[atx.tx] = txs[atx.tx]
                 /\ (last' # last /\ last'.op \in {"Commit", "Rollback"})
                      => /\ ~last'.ok
                         /\ last'.err = "transaction already finished"
                         /\ last'.calls = 0
                         /\ coll' = coll]_vars

\* a Commit was refused on a context that had been rolled back
C12_Witness ==
  /\ atx.rolledBack /\ ~atx.committed
  /\ txs[atx.tx].status = "aborted"
  /\ last.op = "Commit" /\ ~last.ok /\ last.err = "transaction already finished"

----------------------------------------------------------------------------
(* SpecMu: Adapter.Transaction called from several goroutines that share   *)
(* one enforcer, on the adapter of NewAdapter, on an adapter of GetAdapter *)
(* and on copies of them                                                   *)

\* at most MaxAdapters adapters before the application stops copying them
MaxAdapters == 4

\* each goroutine calls Transaction at most MaxCalls times
MaxCalls == 1

InitMu ==
  /\ coll = EmptyBag
  /\ model = {}
  /\ isFiltered = FALSE
  /\ last = NoCall
  /\ codec = NoCodec
  /\ TxInit

\* a.Copy() called by the application
CopyAdapter ==
  \E a \in 1..Len(adapters) :
    /\ Len(adapters) < MaxAdapters
    /\ adapters' = Append(adapters, Copy(a))
    /\ UNCHANGED <<coll, model, isFiltered, last, codec, eAdapter, txs, frame, atx,
                   mu, procs>>

\* a.Transaction(e, fc) is called: when a.transactionMu is nil, muInitialize.Do
\* creates the mutex of this adapter (sync.Once runs it once for the adapter,
\* and a goroutine that read nil finds the pointer after Do)
TransactionCall(g) ==
  \E a \in 1..Len(adapters) :
    /\ procs[g].pc = "idle"
    /\ procs[g].calls < MaxCalls
    /\ IF adapters[a].transactionMu = 0
       THEN /\ mu' = Append(mu, 0)
            /\ adapters' = [adapters EXCEPT ![a].transactionMu = Len(mu) + 1]
       ELSE UNCHANGED <<mu, adapters>>
    /\ procs' = [procs EXCEPT ![g] = [NoProc EXCEPT !.pc = "lock", !.a = a,
                                                   !.calls = procs[g].calls + 1]]
    /\ UNCHANGED <<coll, model, isFiltered, last, codec, eAdapter, txs, frame, atx>>

\* a.transactionMu.Lock()
TransactionLock(g) ==
  /\ procs[g].pc = "lock"
  /\ mu[adapters[procs[g].a].transactionMu] = 0
  /\ mu' = [mu EXCEPT ![adapters[procs[g].a].transactionMu] = g]
  /\ procs' = [procs EXCEPT ![g].pc = "begin"]
  /\ UNCHANGED <<coll, model, isFiltered, last, codec, adapters, eAdapter, txs,
                 frame, atx>>

\* originalAdapter := a.Copy(); a.db.BeginTransaction; e.SetAdapter(txAdapter)
TransactionSubstitute(g) ==
  \E ok \in BOOLEAN :
    LET a == procs[g].a
    IN /\ procs[g].pc = "begin"
       /\ UNCHANGED <<coll, model, isFiltered, last, codec, frame, atx>>
       /\ IF ok
          THEN /\ txs' = BeginTx
               /\ adapters' = adapters \o << Copy(a), TxAdapterOf(a, Len(txs) + 1) >>
               /\ eAdapter' = Len(adapters) + 2
               /\ procs' = [procs EXCEPT ![g].pc = "fc",
                                         ![g].originalAdapter = Len(adapters) + 1,
                                         ![g].txAdapter = Len(adapters) + 2,
                                         ![g].tx = Len(txs) + 1]
               /\ UNCHANGED mu
          ELSE \* BeginTransaction returns an error; the deferred Unlock runs
               /\ mu' = [mu EXCEPT ![adapters[a].transactionMu] = 0]
               /\ procs' = [procs EXCEPT ![g].pc = "idle", ![g].err = TRUE]
               /\ UNCHANGED <<adapters, eAdapter, txs>>

\* err = fc(e)
TransactionFc(g) ==
  \E err \in BOOLEAN :
    /\ procs[g].pc = "fc"
    /\ procs' = [procs EXCEPT ![g].pc = "restore", ![g].err = err]
    /\ UNCHANGED <<coll, model, isFiltered, last, codec, adapters, eAdapter, txs,
                   frame, atx, mu>>

\* e.SetAdapter(originalAdapter)
TransactionRestore(g) ==
  /\ procs[g].pc = "restore"
  /\ eAdapter' = procs[g].originalAdapter
  /\ procs' = [procs EXCEPT ![g].pc = "final"]
  /\ UNCHANGED <<coll, model, isFiltered, last, codec, adapters, txs, frame, atx, mu>>

\* tx.Abort and e.LoadPolicy(), or tx.Commit; then the deferred Unlock
TransactionFinish(g) ==
  \E finalOk \in BOOLEAN, loadOk \in BOOLEAN :
    /\ procs[g].pc = "final"
    /\ mu' = [mu EXCEPT ![adapters[procs[g].a].transactionMu] = 0]
    /\ UNCHANGED <<isFiltered, last, codec, adapters, eAdapter, frame, atx>>
    /\ IF ~finalOk
       THEN \* tx.Abort or tx.Commit returns an error
            /\ procs' = [procs EXCEPT ![g].pc = "idle", ![g].err = TRUE]
            /\ UNCHANGED <<coll, model, txs>>
       ELSE IF procs[g].err
       THEN /\ txs' = [txs EXCEPT ![procs[g].tx].status = "aborted"]
            /\ model' = IF loadOk THEN loadLines(DOMAIN coll, {}) ELSE model
            /\ procs' = [procs EXCEPT ![g].pc = "idle"]
            /\ UNCHANGED coll
       ELSE /\ txs' = [txs EXCEPT ![procs[g].tx].status = "committed"]
            /\ coll' = ApplyWrites(coll, txs[procs[g].tx].writes)
            /\ procs' = [procs EXCEPT ![g].pc = "idle"]
            /\ UNCHANGED model

NextMu ==
  \/ BeginTransaction
  \/ GetAdapter
  \/ CopyAdapter
  \/ \E g \in Procs : TransactionCall(g)
  \/ \E g \in Procs : TransactionLock(g)
  \/ \E g \in Procs : TransactionSubstitute(g)
  \/ \E g \in Procs : TransactionFc(g)
  \/ \E g \in Procs : TransactionRestore(g)
  \/ \E g \in Procs : TransactionFinish(g)

SpecMu == InitMu /\ [][NextMu]_vars

----------------------------------------------------------------------------
(* SpecNest: one goroutine calls Transaction, and fc may call Transaction  *)
(* again, on any adapter it can reach; the call made by the fc of frame g  *)
(* is frame g + 1                                                          *)

\* fc calls a.Transaction(e, fc2) and waits for it to return; the mutex of the
\* adapter is created as in every call
TransactionFcCalls(g) ==
  \E a \in 1..Len(adapters) :
    /\ procs[g].pc = "fc"
    /\ g + 1 \in Procs
    /\ procs[g + 1].pc = "idle"
    /\ procs[g + 1].calls < MaxCalls
    /\ IF adapters[a].transactionMu = 0
       THEN /\ mu' = Append(mu, 0)
            /\ adapters' = [adapters EXCEPT ![a].transactionMu = Len(mu) + 1]
       ELSE UNCHANGED <<mu, adapters>>
    /\ procs' = [procs EXCEPT ![g].pc = "nested",
                              ![g + 1] = [NoProc EXCEPT !.pc = "lock", !.a = a,
                                                       !.calls = procs[g + 1].calls + 1]]
    /\ UNCHANGED <<coll, model, isFiltered, last, codec, eAdapter, txs, frame, atx>>

\* the Transaction call of fc has returned, fc goes on
TransactionFcResumes(g) ==
  /\ procs[g].pc = "nested"
  /\ procs[g + 1].pc = "idle"
  /\ procs' = [procs EXCEPT ![g].pc = "fc"]
  /\ UNCHANGED <<coll, model, isFiltered, last, codec, adapters, eAdapter, txs,
                 frame, atx, mu>>

\* the steps of the Transaction calls in progress
TransactionSteps ==
  \/ \E g \in Procs : TransactionLock(g)
  \/ \E g \in Procs : TransactionSubstitute(g)
  \/ \E g \in Procs : TransactionFc(g)
  \/ \E g \in Procs : TransactionFcCalls(g)
  \/ \E g \in Procs : TransactionFcResumes(g)
  \/ \E g \in Procs : TransactionRestore(g)
  \/ \E g \in Procs : TransactionFinish(g)

NextNest ==
  \/ BeginTransaction
  \/ GetAdapter
  \/ TransactionCall(1)
  \/ TransactionSteps

\* database calls return, fc goes on after each of its steps and a Lock on a
\* free mutex is taken: a step of a call that stays possible is taken
SpecNest == InitMu /\ [][NextNest]_vars /\ WF_vars(TransactionSteps)

\* C26: every call of Transaction returns in the end, the call that fc makes
\* on the adapter installed in the enforcer or on the adapter of the outer
\* call included
C26_EveryCallReturns ==
  \A g \in Procs : (procs[g].pc = "lock") ~> (procs[g].pc = "idle")

----------------------------------------------------------------------------
(* Claims about concurrent transactions                                    *)

\* the goroutine is between the begin of its database transaction and the
\* commit or abort
InFlight(g) == procs[g].pc \in {"fc", "restore", "final"}

\* x is a copy of y, or a copy of a copy of y
RECURSIVE CopiedFrom(_, _)
CopiedFrom(x, y) ==
  /\ adapters[x].copyOf # 0
  /\ \/ adapters[x].copyOf = y
     \/ CopiedFrom(adapters[x].copyOf, y)

\* C11: of the Transaction calls made on one adapter, or on an adapter and
\* its copies, at most one is between the begin of its database transaction
\* and the commit or abort
C11_TransactionsSerialized ==
  \A g \in Procs, h \in Procs :
    (/\ g # h
     /\ InFlight(g) /\ InFlight(h)
     /\ \/ procs[g].a = procs[h].a
        \/ CopiedFrom(procs[g].a, procs[h].a)
        \/ CopiedFrom(procs[h].a, procs[g].a))
      => FALSE

----------------------------------------------------------------------------
(* The write operations step by step: each database call is a step of the  *)
(* calling goroutine.  No write operation takes a lock.                    *)

Min(x, y) == IF x < y THEN x ELSE y

\* a variant that puts every remaining rule into one bulk insert
nextBatchAll(rules, sent) == SubSeq(rules, sent + 1, Len(rules))

\* the rules of the next bulk insert: the loops flush the batch when it holds
\* batchSize rules, and the last flush takes what is left
nextBatch(rules, sent) == SubSeq(rules, sent + 1, Min(sent + batchSize, Len(rules)))

\* SavePolicy's argument: a model and its rules in the order they are collected
SaveArgs(ms) == {[m |-> m, rules |-> PolicyLines(m)] : m \in ms}

\* a model of 2 * batchSize + 1 rules, the first half of the second batch being
\* the last rules of section p; the sequence of its lines is built once
BigRules ==
  SubSeq([i \in 1..(2 * batchSize + 1) |->
            savePolicyLine(IF 2 * i <= 3 * batchSize THEN "p" ELSE "g", <<ToString(i)>>)],
         1, 2 * batchSize + 1)

BigSave ==
  [m |-> {<<BigRules[i].Ptype, BigRules[i].V0>> : i \in DOMAIN BigRules},
   rules |-> BigRules]

\* a.SavePolicyCtx(ctx, model) is called
SavePolicyCall(g, args) ==
  \E x \in args :
    /\ procs[g].pc = "idle"
    /\ procs[g].calls < MaxCalls
    /\ procs' = [procs EXCEPT ![g] = [NoProc EXCEPT !.pc = "truncate", !.a = 1,
                                                   !.calls = procs[g].calls + 1,
                                                   !.rules = x.rules]]
    /\ model' = x.m
    /\ UNCHANGED <<coll, isFiltered, last, codec, adapters, eAdapter, txs, frame,
                   atx, mu>>

\* err := a.collection.Truncate(ctx); a model without rules is saved by it alone
SavePolicyTruncate(g) ==
  \E ok \in BOOLEAN :
    /\ procs[g].pc = "truncate"
    /\ UNCHANGED <<model, isFiltered, last, codec, adapters, eAdapter, txs, frame,
                   atx, mu>>
    /\ IF ok
       THEN /\ coll' = Truncate(coll)
            /\ procs' = [procs EXCEPT
                 ![g].pc = IF Len(procs[g].rules) = 0 THEN "idle" ELSE "insert",
                 ![g].log = Append(@, [n |-> 0, ok |-> TRUE, call |-> "Truncate"])]
       ELSE /\ coll' = coll
            /\ procs' = [procs EXCEPT
                 ![g].pc = "idle", ![g].err = TRUE,
                 ![g].log = Append(@, [n |-> 0, ok |-> FALSE, call |-> "Truncate"])]

\* flushBatch: a.collection.CreateDocuments(ctx, batch)
SavePolicyFlush(g) ==
  \E ok \in BOOLEAN :
    LET batch == nextBatch(procs[g].rules, procs[g].sent)
        sent == procs[g].sent + Len(batch)
    IN /\ procs[g].pc = "insert"
       /\ UNCHANGED <<model, isFiltered, last, codec, adapters, eAdapter, txs, frame,
                      atx, mu>>
       /\ IF ok
          THEN /\ coll' = CreateDocuments(coll, batch)
               /\ procs' = [procs EXCEPT
                    ![g].pc = IF sent = Len(procs[g].rules) THEN "idle" ELSE "insert",
                    ![g].sent = sent,
                    ![g].log = Append(@, [n |-> Len(batch), ok |-> TRUE,
                                          call |-> "CreateDocuments"])]
          ELSE /\ coll' = coll
               /\ procs' = [procs EXCEPT
                    ![g].pc = "idle", ![g].err = TRUE,
                    ![g].log = Append(@, [n |-> Len(batch), ok |-> FALSE,
                                          call |-> "CreateDocuments"])]

\* a.AddPolicyCtx(ctx, sec, "p", rule) is called
AddPolicyCall(g) ==
  \E rule \in TxRules :
    /\ procs[g].pc = "idle"
    /\ procs[g].calls < MaxCalls
    /\ procs' = [procs EXCEPT ![g] = [NoProc EXCEPT !.pc = "write", !.a = 1,
                                                   !.calls = procs[g].calls + 1,
                                                   !.w = InsertOf(rule)]]
    /\ UNCHANGED <<coll, model, isFiltered, last, codec, adapters, eAdapter, txs,
                   frame, atx, mu>>

\* a.RemovePolicyCtx(ctx, sec, "p", rule) is called
RemovePolicyCall(g) ==
  \E rule \in TxRules :
    /\ procs[g].pc = "idle"
    /\ procs[g].calls < MaxCalls
    /\ procs' = [procs EXCEPT ![g] = [NoProc EXCEPT !.pc = "write", !.a = 1,
                                                   !.calls = procs[g].calls + 1,
                                                   !.w = RemoveOf(rule)]]
    /\ UNCHANGED <<coll, model, isFiltered, last, codec, adapters, eAdapter, txs,
                   frame, atx, mu>>

\* the database call of AddPolicyCtx or RemovePolicyCtx
DatabaseWrite(g) ==
  \E ok \in BOOLEAN :
    /\ procs[g].pc = "write"
    /\ coll' = IF ok THEN ApplyWrite(coll, procs[g].w) ELSE coll
    /\ procs' = [procs EXCEPT ![g].pc = "idle", ![g].err = ~ok]
    /\ UNCHANGED <<model, isFiltered, last, codec, adapters, eAdapter, txs, frame,
                   atx, mu>>

----------------------------------------------------------------------------
(* SpecSave: SavePolicy called from one goroutine, database call by        *)
(* database call, on a collection with any content                         *)

InitSave ==
  /\ coll \in StoredCollections
  /\ model = {}
  /\ isFiltered = FALSE
  /\ last = NoCall
  /\ codec = NoCodec
  /\ TxInit

NextSave ==
  \/ SavePolicyCall(1, SaveArgs(Models) \cup {BigSave})
  \/ SavePolicyTruncate(1)
  \/ SavePolicyFlush(1)

SpecSave == InitSave /\ [][NextSave]_vars

\* the database calls of the goroutine's SavePolicy so far
SaveLog == procs[1].log

\* C20: SavePolicy truncates, then inserts in batches: the truncation comes
\* before every bulk insert, a bulk insert carries at most batchSize (1000)
\* rules, and a save that succeeds has inserted every rule of the model once;
\* from the truncation on the collection holds rules of the model only, those
\* of the batches inserted so far; a bulk insert that fails is the last
\* database call of the save, which returns the error with the earlier batches
\* in the collection
C20_TruncateThenBatches ==
  LET p == procs[1]
  IN /\ \A i \in DOMAIN SaveLog :
          /\ SaveLog[i].call = "Truncate" <=> i = 1
          /\ SaveLog[i].call = "CreateDocuments"
               => /\ SaveLog[1].ok
                  /\ SaveLog[i].n \in 1..batchSize
          /\ ~SaveLog[i].ok => i = Len(SaveLog) /\ p.pc = "idle" /\ p.err
     /\ (Len(SaveLog) > 0 /\ SaveLog[1].ok)
          => /\ coll = SeqToBag(SubSeq(p.rules, 1, p.sent))
             /\ coll \sqsubseteq SeqToBag(p.rules)
     /\ (Len(SaveLog) > 0 /\ p.pc = "idle" /\ ~p.err)
          => /\ p.sent = Len(p.rules)
             /\ coll = SeqToBag(p.rules)

\* the third bulk insert of a save of 2 * batchSize + 1 rules failed: two
\* batches of batchSize rules are stored
C20_Witness ==
  /\ procs[1].pc = "idle" /\ procs[1].err
  /\ Len(SaveLog) = 4
  /\ SaveLog[2].n = batchSize /\ SaveLog[3].n = batchSize
  /\ SaveLog[4].n = 1 /\ ~SaveLog[4].ok
  /\ BagCardinality(coll) = 2 * batchSize

----------------------------------------------------------------------------
(* SpecConc: SavePolicy, AddPolicy and RemovePolicy called on one adapter   *)
(* from several goroutines                                                 *)

InitConc ==
  /\ coll = EmptyBag
  /\ model = {}
  /\ isFiltered = FALSE
  /\ last = NoCall
  /\ codec = NoCodec
  /\ TxInit

NextConc ==
  \/ \E g \in Procs : SavePolicyCall(g, SaveArgs(Models))
  \/ \E g \in Procs : SavePolicyTruncate(g)
  \/ \E g \in Procs : SavePolicyFlush(g)
  \/ \E g \in Procs : AddPolicyCall(g)
  \/ \E g \in Procs : RemovePolicyCall(g)
  \/ \E g \in Procs : DatabaseWrite(g)

SpecConc == InitConc /\ [][NextConc]_vars

\* C13: the write operations called on one adapter are mutually exclusive:
\* while a SavePolicy is between its truncation and its last insert, no other
\* goroutine's write operation performs a database step
C13_WritesMutuallyExclusive ==
  [][\A g \in Procs, h \in Procs :
       (/\ g # h
        /\ procs[g].pc = "insert"
        /\ procs[h].pc \in {"write", "truncate", "insert"})
         => procs'[h] = procs[h]]_vars

\* the goroutine's one call was a SavePolicy that has returned nil
Saved(g) ==
  /\ procs[g].pc = "idle" /\ procs[g].calls = 1 /\ ~procs[g].err
  /\ Len(procs[g].log) >= 1 /\ procs[g].log[1].call = "Truncate"

\* C27: when two goroutines have each called SavePolicy with a different
\* model and both calls returned nil, the collection holds exactly the rules
\* of one of the two models, not rules of both and not a part of them
C27_ConcurrentSavesLeaveOneModel ==
  (/\ Saved(1) /\ Saved(2)
   /\ procs[1].rules # procs[2].rules)
    => \/ coll = SeqToBag(procs[1].rules)
       \/ coll = SeqToBag(procs[2].rules)

----------------------------------------------------------------------------
(* The database calls of the public operations.  The run of an operation   *)
(* is the sequence of the database calls it issues, each with its outcome, *)
(* and whether the operation returns nil.                                  *)

DbCall(name, ok) == [ok |-> ok, call |-> name]

\* a call followed by the rest of the operation when the call returns an error
\* that the operation does not look at
Ignore(c, rest) == [ok |-> rest.ok, log |-> <<c>> \o rest.log]

\* `if err != nil { return err }` after a call, else the rest of the operation
Check(c, rest) ==
  IF c.ok THEN [ok |-> rest.ok, log |-> <<c>> \o rest.log]
  ELSE [ok |-> FALSE, log |-> <<c>>]

Done == [ok |-> TRUE, log |-> <<>>]

\* client.CreateDatabase for client.Database, db.CreateCollection for
\* db.Collection
CreateOf(what) == IF what = "Database" THEN "CreateDatabase" ELSE "CreateCollection"

\* a variant that goes on when the creation fails
ensureExistsUnchecked(what, lookupOk, createOk, rest) ==
  IF lookupOk THEN Check(DbCall(what, TRUE), rest)
  ELSE Ignore(DbCall(what, FALSE), Ignore(DbCall(CreateOf(what), createOk), rest))

\* ensureDatabaseExists, ensureCollectionExists: an error of the lookup means
\* "does not exist" and leads to the creation
ensureExists(what, lookupOk, createOk, rest) ==
  IF lookupOk THEN Check(DbCall(what, TRUE), rest)
  ELSE Ignore(DbCall(what, FALSE), Check(DbCall(CreateOf(what), createOk), rest))

\* the cursor loop over n documents, the read number failAt returning an error
\* (0: none does)
RECURSIVE readDocuments(_, _, _, _)
readDocuments(i, n, failAt, rest) ==
  IF i > n THEN rest
  ELSE Check(DbCall("ReadDocument", i # failAt), readDocuments(i + 1, n, failAt, rest))

\* one query and its cursor: Query, the reads, and cursor.Close on every path
\* after the query succeeded, its error discarded (`_ = cursor.Close()`)
queryAndRead(c, rest) ==
  LET closing == [ok |-> TRUE, log |-> <<DbCall("Close", c.closeOk)>>]
      reads == readDocuments(1, c.n, c.failAt, Done)
      cursor == [ok |-> reads.ok, log |-> reads.log \o closing.log]
  IN Check(DbCall("Query", c.queryOk),
           IF cursor.ok THEN [ok |-> rest.ok, log |-> cursor.log \o rest.log]
           ELSE cursor)

\* the outcomes of a query and its cursor over at most MaxDocs documents
Cursors ==
  {c \in [queryOk : BOOLEAN, n : 0..MaxDocs, failAt : 0..MaxDocs, closeOk : BOOLEAN] :
     c.failAt <= c.n}

\* SavePolicyCtx: Truncate, then the bulk inserts, number failAt failing
RECURSIVE bulkInserts(_, _, _)
bulkInserts(i, n, failAt) ==
  IF i > n THEN Done
  ELSE Check(DbCall("CreateDocuments", i # failAt), bulkInserts(i + 1, n, failAt))

\* Adapter.Transaction: begin; after fc, abort and reload, or commit
runTransaction(beginOk, fcOk, finalOk, c) ==
  Check(DbCall("BeginTransaction", beginOk),
        IF fcOk THEN Check(DbCall("Commit", finalOk), Done)
        ELSE LET r == Check(DbCall("Abort", finalOk), queryAndRead(c, Done))
             IN [ok |-> FALSE, log |-> r.log])

----------------------------------------------------------------------------
(* SpecErr: every public operation, each of its database calls failing or  *)
(* not                                                                     *)

InitErr ==
  /\ coll = EmptyBag
  /\ model = {}
  /\ isFiltered = FALSE
  /\ last = NoCall
  /\ codec = NoCodec
  /\ TxInit

\* the record of the operation `op` that ran as `r`
Ran(op, r) ==
  [NoCall EXCEPT !.op = op, !.ok = r.ok, !.log = r.log, !.calls = Len(r.log)]

\* NewAdapter, NewAdapterFromClient
ErrNewAdapter ==
  \E dbOk \in BOOLEAN, dbCreateOk \in BOOLEAN, colOk \in BOOLEAN, colCreateOk \in BOOLEAN :
    /\ last' = Ran("NewAdapter",
                    ensureExists("Database", dbOk, dbCreateOk,
                                 ensureExists("Collection", colOk, colCreateOk, Done)))
    /\ UNCHANGED <<coll, model, isFiltered, codec, txVars>>

ErrLoadPolicy ==
  \E c \in Cursors :
    /\ last' = Ran("LoadPolicy", queryAndRead(c, Done))
    /\ UNCHANGED <<coll, model, isFiltered, codec, txVars>>

\* LoadFilteredPolicyCtx with one or two filters
ErrLoadFilteredPolicy ==
  \E c1 \in Cursors, c2 \in Cursors, two \in BOOLEAN :
    /\ last' = Ran("LoadFilteredPolicy",
                    queryAndRead(c1, IF two THEN queryAndRead(c2, Done) ELSE Done))
    /\ UNCHANGED <<coll, model, isFiltered, codec, txVars>>

ErrSavePolicy ==
  \E truncateOk \in BOOLEAN, n \in 0..2, failAt \in 0..2 :
    /\ failAt <= n
    /\ last' = Ran("SavePolicy",
                    Check(DbCall("Truncate", truncateOk), bulkInserts(1, n, failAt)))
    /\ UNCHANGED <<coll, model, isFiltered, codec, txVars>>

\* the operations of one database call: AddPolicy, AddPolicies, RemovePolicy,
\* RemoveFilteredPolicy, UpdatePolicy, BeginTransaction, Commit, Rollback
ErrSingleCall ==
  \E x \in { <<"AddPolicy", "CreateDocument">>, <<"AddPolicies", "CreateDocuments">>,
             <<"RemovePolicy", "Query">>, <<"RemoveFilteredPolicy", "Query">>,
             <<"UpdatePolicy", "Query">>, <<"BeginTransaction", "BeginTransaction">>,
             <<"Commit", "Commit">>, <<"Rollback", "Abort">> },
     ok \in BOOLEAN :
    /\ last' = Ran(x[1], Check(DbCall(x[2], ok), Done))
    /\ UNCHANGED <<coll, model, isFiltered, codec, txVars>>

\* RemovePolicies, UpdatePolicies, UpdateFilteredPolicies: one call for each
\* rule, up to the first error
ErrEachRule ==
  \E x \in { <<"RemovePolicies", "Query">>, <<"UpdatePolicies", "Query">>,
             <<"UpdateFilteredPolicies", "CreateDocument">> },
     ok1 \in BOOLEAN, ok2 \in BOOLEAN :
    /\ last' = Ran(x[1], Check(DbCall(x[2], ok1), Check(DbCall(x[2], ok2), Done)))
    /\ UNCHANGED <<coll, model, isFiltered, codec, txVars>>

ErrTransaction ==
  \E beginOk \in BOOLEAN, fcOk \in BOOLEAN, finalOk \in BOOLEAN, c \in Cursors :
    /\ last' = Ran("Transaction", runTransaction(beginOk, fcOk, finalOk, c))
    /\ UNCHANGED <<coll, model, isFiltered, codec, txVars>>

NextErr ==
  \/ ErrNewAdapter
  \/ ErrLoadPolicy
  \/ ErrLoadFilteredPolicy
  \/ ErrSavePolicy
  \/ ErrSingleCall
  \/ ErrEachRule
  \/ ErrTransaction

SpecErr == InitErr /\ [][NextErr]_vars

\* the calls whose error an operation may pass over
Passable == {"Close", "Database", "Collection"}

\* C15 as stated: when a database call of an operation returns an error, the
\* operation returns an error
C15_EveryErrorReturned ==
  (\E i \in 1..Len(last.log) : ~last.log[i].ok) => ~last.ok

\* C15 as amended: when a database call other than a cursor Close or the lookup
\* of the database or the collection returns an error, the operation returns an
\* error; after a failed lookup the creation is called, and its error is
\* returned
C15_ErrorsReturnedButCloseAndLookup ==
  /\ (\E i \in 1..Len(last.log) :
        ~last.log[i].ok /\ last.log[i].call \notin Passable) => ~last.ok
  /\ \A i \in 1..Len(last.log) :
       (~last.log[i].ok /\ last.log[i].call \in {"Database", "Collection"})
         => /\ i < Len(last.log)
            /\ last.log[i + 1].call = CreateOf(last.log[i].call)

\* a filtered load whose first filter was read in full and whose second cursor
\* failed on a read returned an error
C15_Witness ==
  /\ last.op = "LoadFilteredPolicy" /\ ~last.ok
  /\ last.log = << DbCall("Query", TRUE), DbCall("ReadDocument", TRUE),
                   DbCall("Close", TRUE), DbCall("Query", TRUE),
                   DbCall("ReadDocument", FALSE), DbCall("Close", TRUE) >>

----------------------------------------------------------------------------
(* SpecAdd: the operations that insert, on a collection with any content,  *)
(* and LoadPolicy                                                          *)

\* the rule lists AddPolicies and UpdateFilteredPolicies are called with: no
\* rule, one rule, two rules, the same rule twice
RuleLists ==
  { <<>>, << <<"a">> >>, << <<"a">>, <<"a", "b">> >>, << <<"a", "">>, <<"a">> >>,
    << <<"", "b">>, <<"b", "", "", "", "", "a">> >> }

InitAdd ==
  /\ coll \in StoredCollections
  /\ model = {}
  /\ isFiltered = FALSE
  /\ last = NoCall
  /\ codec = NoCodec
  /\ TxInit

\* the lines AddPoliciesCtx collects
policyLinesOf(ptype, rules) == [i \in DOMAIN rules |-> savePolicyLine(ptype, rules[i])]

AddPoliciesCtx ==
  \/ \E ptype \in PTypes, rules \in RuleLists :
       /\ BagCardinality(coll) + Len(rules) <= MaxDocs
       /\ coll' = CreateDocuments(coll, policyLinesOf(ptype, rules))
       /\ last' = [NoCall EXCEPT !.op = "AddPolicies", !.ptype = ptype, !.rules = rules]
       /\ UNCHANGED <<model, isFiltered, codec, txVars>>
  \/ Failed("AddPolicies")

\* the new policies added when no add fails (failAt = 0) or when the add
\* numbered failAt fails: none of the earlier adds is taken back
addedBeforeNone(newPolicies, failAt) ==
  IF failAt = 0 THEN newPolicies ELSE <<>>

addedBefore(newPolicies, failAt) ==
  IF failAt = 0 THEN newPolicies ELSE Prefix(newPolicies, failAt - 1)

\* UpdateFilteredPolicies: one AddPolicy for each new policy, in order, until
\* one fails; fieldIndex and fieldValues are not used; the list of old policies
\* returned is empty, and nil with an error
UpdateFilteredPolicies ==
  \E ptype \in PTypes, newPolicies \in RuleLists, fieldIndex \in FieldIndexes,
     fieldValues \in FieldValueLists, failAt \in 0..MaxDocs :
    /\ failAt <= Len(newPolicies)
    /\ BagCardinality(coll) + Len(addedBefore(newPolicies, failAt)) <= MaxDocs
    /\ coll' = CreateDocuments(coll, policyLinesOf(ptype, addedBefore(newPolicies, failAt)))
    /\ last' = [NoCall EXCEPT !.op = "UpdateFilteredPolicies", !.ok = (failAt = 0),
                              !.ptype = ptype, !.rules = newPolicies,
                              !.fieldIndex = fieldIndex, !.fieldValues = fieldValues,
                              !.calls = IF failAt = 0 THEN Len(newPolicies) ELSE failAt,
                              !.oldPolicies = [nil |-> failAt # 0, list |-> <<>>]]
    /\ UNCHANGED <<model, isFiltered, codec, txVars>>

NextAdd ==
  \/ AddPolicyCtx
  \/ AddPoliciesCtx
  \/ LoadPolicyCtx

SpecAdd == InitAdd /\ [][NextAdd]_vars

\* SpecUpd: calls of UpdateFilteredPolicies, one after the other, on a
\* collection with any content
NextUpd ==
  \/ last.op = "none" /\ UpdateFilteredPolicies
  \/ Return

SpecUpd == InitAdd /\ [][NextUpd]_vars

\* AddPolicy added one document that encodes the rule, AddPolicies one for each
\* rule of its list, and every document stored before is still there
AddsOnly ==
  /\ (last'.op = "AddPolicy" /\ last'.ok)
       => /\ BagCardinality(coll') = BagCardinality(coll) + 1
          /\ \A d \in DOMAIN coll' :
               CopiesIn(d, coll') = CopiesIn(d, coll)
                 + (IF Encodes(d, last'.ptype, last'.rule) THEN 1 ELSE 0)
  /\ (last'.op = "AddPolicies" /\ last'.ok)
       => /\ BagCardinality(coll') = BagCardinality(coll) + Len(last'.rules)
          /\ \A d \in DOMAIN coll' :
               CopiesIn(d, coll') = CopiesIn(d, coll)
                 + Cardinality({i \in DOMAIN last'.rules :
                                  Encodes(d, last'.ptype, last'.rules[i])})

\* a successful load into a fresh model right after an AddPolicy that succeeded
\* on an empty collection
LoadAfterFirstAdd ==
  /\ last.op = "AddPolicy" /\ last.ok /\ BagCardinality(coll) = 1
  /\ last'.op = "LoadPolicy" /\ last'.ok /\ last'.dest = {}

\* C16 as stated: AddPolicy and AddPolicies only add, one document for each
\* rule, and after AddPolicy(ptype, rule) on an empty collection LoadPolicy
\* yields the one tuple of ptype and rule
C16_AddThenLoadExact ==
  [][/\ AddsOnly
     /\ LoadAfterFirstAdd => model' = {<<last.ptype>> \o last.rule}]_vars

\* C16 as amended: the tuple LoadPolicy yields is the ptype, then the rule's
\* values up to the last non-empty one
C16_AddThenLoadTrimmed ==
  [][/\ AddsOnly
     /\ LoadAfterFirstAdd
          => model' = {<<last.ptype>> \o Prefix(last.rule, LastNonEmpty(last.rule))}]_vars

\* AddPolicies added the documents of two rules to an empty collection
C16_Witness ==
  /\ last.op = "AddPolicies" /\ last.ok
  /\ last.rules = << <<"a">>, <<"a", "b">> >>
  /\ coll = SetToBag({savePolicyLine(last.ptype, <<"a">>),
                      savePolicyLine(last.ptype, <<"a", "b">>)})

\* the number of the new policies of the call that encode to the document d,
\* among the first n
NewCopies(d, call, n) ==
  Cardinality({i \in 1..n : Encodes(d, call.ptype, call.rules[i])})

----------------------------------------------------------------------------
(* SpecUpds: calls of UpdatePolicies, one after the other, on a collection *)
(* with any content                                                        *)

\* the lists of rules UpdatePolicies is called with
UpdateLists ==
  UNION {[1..n -> { <<"a">>, <<"a", "b">>, <<"b">> }] : n \in 0..MaxDocs}

\* the loop of UpdatePolicies from pair i on (1-based); the store fails the
\* update of pair failAt.  The collection when the call ends, the number of
\* UpdatePolicy calls made and the error: newRules[i] with i past the end of
\* newRules is a runtime panic
RECURSIVE updateLoop(_, _, _, _, _, _)
updateLoop(c, ptype, oldRules, newRules, i, failAt) ==
  IF i > Len(oldRules) THEN [err |-> "", calls |-> i - 1, out |-> c]
  ELSE IF i > Len(newRules)
  THEN [err |-> "index out of range", calls |-> i - 1, out |-> c]
  ELSE IF failAt = i THEN [err |-> "error", calls |-> i, out |-> c]
  ELSE updateLoop(QueryUpdate(c, exactMatchQuery(savePolicyLine(ptype, oldRules[i])),
                              savePolicyLine(ptype, newRules[i])),
                  ptype, oldRules, newRules, i + 1, failAt)

UpdatePolicies ==
  \E ptype \in PTypes, oldRules \in UpdateLists, newRules \in UpdateLists,
     failAt \in 0..MaxDocs :
    LET run == updateLoop(coll, ptype, oldRules, newRules, 1, failAt)
    IN /\ coll' = run.out
       /\ last' = [NoCall EXCEPT !.op = "UpdatePolicies", !.ptype = ptype,
                                 !.ok = run.err = "", !.err = run.err,
                                 !.calls = run.calls, !.rules = newRules,
                                 !.oldRules = oldRules]
       /\ UNCHANGED <<model, isFiltered, codec, txVars>>

NextUpds ==
  \/ last.op = "none" /\ UpdatePolicies
  \/ Return

SpecUpds == InitAdd /\ [][NextUpds]_vars

\* the collection after the updates of the first k pairs of the call
RECURSIVE Updated(_, _, _)
Updated(c, call, k) ==
  IF k = 0 THEN c
  ELSE QueryUpdate(Updated(c, call, k - 1),
                   exactMatchQuery(savePolicyLine(call.ptype, call.oldRules[k])),
                   savePolicyLine(call.ptype, call.rules[k]))

\* C30: UpdatePolicies ends without a runtime fault for every pair of lists,
\* of equal or different lengths; it applies UpdatePolicy to the pairs
\* (oldRules[i], newRules[i]) in the order of i, and at the first update that
\* fails it returns the error with the updates before it applied
C30_UpdatesPairsInOrder ==
  [][last'.op = "UpdatePolicies"
      => /\ last'.err # "index out of range"
         /\ last'.ok => /\ last'.calls = Len(last'.oldRules)
                        /\ coll' = Updated(coll, last', Len(last'.oldRules))
         /\ ~last'.ok => /\ last'.calls \in 1..Len(last'.oldRules)
                         /\ coll' = Updated(coll, last', last'.calls - 1)]_vars

----------------------------------------------------------------------------
(* SpecPreview: Preview applied to a list of rules and a model             *)

\* the rules Preview is called with: the stored documents and one whose ptype
\* has no section in the model
PreviewDocs == StoredDocs \cup {savePolicyLine("x", <<"a">>)}

\* key[:1], the first character of the ptype
firstChar(key) == IF key = "p2" THEN "p" ELSE IF key = "g2" THEN "g" ELSE key

\* model.HasPolicyEx(sec, key, rule): an error when the model has no such
\* section, otherwise whether the model's policy holds the rule
HasPolicyEx(m, sec, key, rule) ==
  [ok |-> sec \in {"p", "g"} /\ <<key>> \o rule \in m,
   err |-> IF sec \in {"p", "g"} THEN "" ELSE "missing policy section"]

\* (*rules)[j:]
kept(rules, j) == SubSeq(rules, j + 1, Len(rules))

\* (*rules)[j], (*rules)[i] = rule, (*rules)[j]
swapped(rules, i, j) == [rules EXCEPT ![j] = rules[i], ![i] = rules[j]]

\* the loop of Preview from rule i on (1-based) with j rules kept so far: the
\* slice when the call ends, the error it returns and whether it panicked
RECURSIVE previewLoop(_, _, _, _)
previewLoop(rules, m, i, j) ==
  IF i > Len(rules) THEN [fault |-> FALSE, err |-> "", rules |-> kept(rules, j)]
  ELSE LET rule == rules[i]
           r == <<rule.Ptype, rule.V0, rule.V1, rule.V2, rule.V3, rule.V4, rule.V5>>
           index == TrimIndex(r, Len(r))
       IN IF index = 0 \/ r[1] = ""
          THEN [fault |-> TRUE, err |-> "", rules |-> rules]
          ELSE LET p == SubSeq(r, 1, index)
                   has == HasPolicyEx(m, firstChar(p[1]), p[1], Tail(p))
               IN IF has.err # ""
                  THEN [fault |-> FALSE, err |-> has.err, rules |-> rules]
                  ELSE IF has.ok
                       THEN previewLoop(swapped(rules, i, j + 1), m, i + 1, j + 1)
                       ELSE previewLoop(rules, m, i + 1, j)

\* the caller's slice is procs[1].rules
InitPreview ==
  /\ coll = EmptyBag
  /\ model \in Models
  /\ isFiltered = FALSE
  /\ last = NoCall
  /\ codec = NoCodec
  /\ adapters = <<[isFiltered |-> FALSE, transaction |-> 0, transactionMu |-> 1,
                   copyOf |-> 0]>>
  /\ eAdapter = 1
  /\ txs = <<>>
  /\ frame = NoFrame
  /\ atx = NoAtx
  /\ mu = <<0>>
  /\ \E rules \in UNION {[1..n -> PreviewDocs] : n \in 0..MaxDocs} :
       procs = [g \in Procs |-> IF g = 1 THEN [NoProc EXCEPT !.rules = rules]
                                ELSE NoProc]

Preview ==
  /\ last.op = "none"
  /\ LET rules == procs[1].rules
         out == previewLoop(rules, model, 1, 0)
     IN /\ last' = [NoCall EXCEPT !.op = "Preview",
                                  !.ok = ~out.fault /\ out.err = "",
                                  !.err = IF out.fault THEN "index out of range"
                                          ELSE out.err,
                                  !.rules = rules]
        /\ procs' = [procs EXCEPT ![1].rules = out.rules]
  /\ UNCHANGED <<coll, model, isFiltered, codec, adapters, eAdapter, txs, frame,
                 atx, mu>>

NextPreview == Preview

SpecPreview == InitPreview /\ [][NextPreview]_vars

\* the number of times the document occurs in the list
Occurs(d, list) == Cardinality({i \in DOMAIN list : list[i] = d})

\* C23: after Preview returned nil the slice holds exactly the rules of the
\* input that are valid for the model, each as often as the input has it, and
\* none of those that are not valid
C23_PreviewKeepsValid ==
  last.op = "Preview" /\ last.ok
    => \A d \in PreviewDocs :
         Occurs(d, procs[1].rules) =
           IF TupleOf(d) \in model THEN Occurs(d, last.rules) ELSE 0

====
